---- MODULE Spec2Model ----
(***************************************************************************)
(* A model of github-rate-limit-http-transport (package ghratelimit):      *)
(*   - Rate / ParseRate          the four counters and their header parser *)
(*   - Limits                    the per-Transport registry (a sync.Map)   *)
(*   - Transport                 the RoundTripper that observes responses  *)
(*   - BalancingTransport        the fold of a strategy over N Transports  *)
(*                                                                         *)
(* Go values are modelled as follows.  A *Transport is its position in the *)
(* candidate list (1..N), the nil *Transport is NilTransport.  A *Rate is  *)
(* the record of its four fields, the nil *Rate is NilRate.  A header      *)
(* value is the sequence of its characters (<<"1","2">> is "12"), so that  *)
(* strconv.ParseUint is modelled digit by digit.  A sync.Map is a function *)
(* whose domain is the set of keys present.                                *)
(*                                                                         *)
(* uint64 counters: every value the model stores is far below 2^63, so the *)
(* int64(r.Reset) conversion of extractValues and the range error of       *)
(* strconv.ParseUint are outside the model's value range.                  *)
(***************************************************************************)
EXTENDS Integers, Sequences, FiniteSets, TLC

(***************************************************************************)
(* Bounds of the model.                                                    *)
(***************************************************************************)
\* the longest candidate list of a BalancingTransport
MaxTransports == 3

\* the "remaining" counts a balanced Transport has observed
Remainings == {0, 1, 2}

\* the epoch seconds the clock and the reset times range over; a reset of 0
\* is the zero value of a Rate that never had one
Epochs == {0, 1, 2, 3}

VARIABLES
    transports, \* BalancingTransport.transports: the candidate list
    strategy,   \* BalancingTransport.strategy: the name of the function
    limits,     \* limits[t]: the Limits of Transport t (or of test t)
    now,        \* time.Now().Unix()
    rt,         \* the BalancingTransport.RoundTrip call: idle, or its outcome
    op,         \* the last operation called on a Limits, with what it returned
    goroutines, \* goroutines[p]: where goroutine p is in its call of Limits.Store,
                \* or in its loop of Transport.Poll
    history,    \* the Store calls made so far, and the last map write of each key
    ctx,        \* the context.Context of the caller of Poll
    poll        \* the BalancingTransport.Poll call: where it is

vars == <<transports, strategy, limits, now, rt, op, goroutines, history, ctx, poll>>

(***************************************************************************)
(* Rate  (src/unnamed/part_002)                                            *)
(***************************************************************************)
Rate(l, u, rem, rst) == [limit |-> l, used |-> u, remaining |-> rem, reset |-> rst]

\* the nil *Rate
NilRate == [nil |-> TRUE]

\* the nil *Transport
NilTransport == 0

\* the nil error
NoError == "nil"

(***************************************************************************)
(* Resource  (src/resource.go)                                             *)
(***************************************************************************)
ResourceCore == "core"
ResourceSearch == "search"
ResourceGraphQL == "graphql"
ResourceIntegrationManifest == "integration_manifest"
ResourceSourceImport == "source_import"
ResourceCodeScanningUpload == "code_scanning_upload"
ResourceCodeScanningAutofix == "code_scanning_autofix"
ResourceActionsRunnerRegistration == "actions_runner_registration"
ResourceSCIM == "scim"
ResourceDependencySnapshots == "dependency_snapshots"
ResourceAuditLog == "audit_log"
ResourceAuditLogStreaming == "audit_log_streaming"
ResourceCodeSearch == "code_search"

ValidResources ==
    { ResourceCore, ResourceSearch, ResourceGraphQL,
      ResourceIntegrationManifest, ResourceSourceImport,
      ResourceCodeScanningUpload, ResourceCodeScanningAutofix,
      ResourceActionsRunnerRegistration, ResourceSCIM,
      ResourceDependencySnapshots, ResourceAuditLog,
      ResourceAuditLogStreaming, ResourceCodeSearch }

(***************************************************************************)
(* HTTP headers.  A header set is the record of the five values            *)
(* http.Header.Get returns for the rate-limit headers; Get returns the     *)
(* empty string for a header that is absent.                               *)
(***************************************************************************)
Header(res, l, u, rem, rst) ==
    [resource |-> res, limit |-> l, used |-> u, remaining |-> rem, reset |-> rst]

\* make(http.Header): no rate-limit header at all
EmptyHeader == Header("", <<>>, <<>>, <<>>, <<>>)

\* ParseResource: the X-RateLimit-Resource value, as it is
ParseResource(headers) == headers.resource

Digits == {"0", "1", "2", "3", "4", "5", "6", "7", "8", "9"}

DigitValue(c) ==
    CASE c = "0" -> 0 [] c = "1" -> 1 [] c = "2" -> 2 [] c = "3" -> 3
      [] c = "4" -> 4 [] c = "5" -> 5 [] c = "6" -> 6 [] c = "7" -> 7
      [] c = "8" -> 8 [] c = "9" -> 9

RECURSIVE DecimalValue(_)
DecimalValue(s) ==
    IF Len(s) = 0 THEN 0
    ELSE DecimalValue(SubSeq(s, 1, Len(s) - 1)) * 10 + DigitValue(s[Len(s)])

\* strconv.ParseUint(s, 10, 64): a syntax error for the empty string and for
\* any character that is not a decimal digit (a sign included)
ParseUint(s) ==
    IF Len(s) = 0 \/ \E i \in 1..Len(s) : s[i] \notin Digits
    THEN [val |-> 0, err |-> "invalid syntax"]
    ELSE [val |-> DecimalValue(s), err |-> NoError]

\* ParseRate deriving remaining from limit and used instead of reading it
ParseRateRecomputesRemaining(headers) ==
    LET l   == ParseUint(headers.limit)
        u   == ParseUint(headers.used)
        rem == ParseUint(headers.remaining)
        rst == ParseUint(headers.reset)
    IN  IF l.err # NoError \/ u.err # NoError \/ rem.err # NoError \/ rst.err # NoError
        THEN [rate |-> Rate(0, 0, 0, 0), err |-> "failed to parse header"]
        ELSE [rate |-> Rate(l.val, u.val,
                            IF l.val >= u.val THEN l.val - u.val ELSE 0, rst.val),
              err |-> NoError]

\* ParseRate: the four fields in the order Limit, Used, Remaining, Reset; the
\* first field that fails ends the parse with its error
ParseRate(headers) ==
    LET l   == ParseUint(headers.limit)
        u   == ParseUint(headers.used)
        rem == ParseUint(headers.remaining)
        rst == ParseUint(headers.reset)
    IN  IF l.err # NoError
        THEN [rate |-> Rate(0, 0, 0, 0),
              err |-> "failed to parse X-Ratelimit-Limit header"]
        ELSE IF u.err # NoError
        THEN [rate |-> Rate(l.val, 0, 0, 0),
              err |-> "failed to parse X-Ratelimit-Used header"]
        ELSE IF rem.err # NoError
        THEN [rate |-> Rate(l.val, u.val, 0, 0),
              err |-> "failed to parse X-Ratelimit-Remaining header"]
        ELSE IF rst.err # NoError
        THEN [rate |-> Rate(l.val, u.val, rem.val, 0),
              err |-> "failed to parse X-Ratelimit-Reset header"]
        ELSE [rate |-> Rate(l.val, u.val, rem.val, rst.val), err |-> NoError]

(***************************************************************************)
(* Limits  (src/unnamed/part_008).  A Limits value l is                    *)
(* [m |-> the sync.Map, Notify |-> whether the callback is set].           *)
(***************************************************************************)
\* var limits Limits: the zero value
NewLimits(withNotify) == [m |-> <<>>, Notify |-> withNotify]

\* MapStore as sync.Map.LoadOrStore would do it: an entry that exists is kept
MapStoreKeepsExisting(m, resource, rate) ==
    [k \in DOMAIN m \cup {resource} |-> IF k \in DOMAIN m THEN m[k] ELSE rate]

\* MapStore writing the counters of an existing entry in place, and stopping
\* after the first two
MapStoreTornWrite(m, resource, rate) ==
    [k \in DOMAIN m \cup {resource} |->
        IF k # resource THEN m[k]
        ELSE IF k \in DOMAIN m
        THEN [m[k] EXCEPT !.limit = rate.limit, !.used = rate.used]
        ELSE rate]

\* MapStore building a new map for the entry: the other entries are gone
MapStoreDropsOthers(m, resource, rate) ==
    [k \in {resource} |-> rate]

\* sync.Map.Store: the entry of the key is replaced as a whole
MapStore(m, resource, rate) ==
    [k \in DOMAIN m \cup {resource} |-> IF k = resource THEN rate ELSE m[k]]

\* Limits.Load
Load(l, resource) ==
    IF resource \in DOMAIN l.m THEN l.m[resource] ELSE NilRate

\* Limits.Store: the map write, then the callback.  The result is the Limits
\* after the call, the map writes made and the callbacks made, in order.
LimitsStore(l, resource, rate) ==
    [limits |-> [l EXCEPT !.m = MapStore(l.m, resource, rate)],
     stored |-> <<<<resource, rate>>>>,
     calls  |-> IF l.Notify THEN <<<<resource, rate>>>> ELSE <<>>]

\* Limits.Parse storing what ParseRate had read before it failed
LimitsParseStoresPartial(l, headers) ==
    LET resource == ParseResource(headers)
        parsed   == ParseRate(headers)
        s        == LimitsStore(l, resource, parsed.rate)
    IN  IF resource = ""
        THEN [limits |-> l, stored |-> <<>>, calls |-> <<>>, err |-> NoError]
        ELSE [limits |-> s.limits, stored |-> s.stored, calls |-> s.calls,
              err |-> parsed.err]

\* Limits.Parse calling ParseRate before it looks at the resource
LimitsParseChecksRateFirst(l, headers) ==
    LET resource == ParseResource(headers)
        parsed   == ParseRate(headers)
    IN  IF parsed.err # NoError
        THEN [limits |-> l, stored |-> <<>>, calls |-> <<>>, err |-> parsed.err]
        ELSE IF resource = ""
        THEN [limits |-> l, stored |-> <<>>, calls |-> <<>>, err |-> NoError]
        ELSE LET s == LimitsStore(l, resource, parsed.rate)
             IN  [limits |-> s.limits, stored |-> s.stored, calls |-> s.calls,
                  err |-> NoError]

\* Limits.Parse
LimitsParse(l, headers) ==
    LET resource == ParseResource(headers)
        parsed   == ParseRate(headers)
    IN  IF resource = ""
        THEN [limits |-> l, stored |-> <<>>, calls |-> <<>>, err |-> NoError]
        ELSE IF parsed.err # NoError
        THEN [limits |-> l, stored |-> <<>>, calls |-> <<>>, err |-> parsed.err]
        ELSE LET s == LimitsStore(l, resource, parsed.rate)
             IN  [limits |-> s.limits, stored |-> s.stored, calls |-> s.calls,
                  err |-> NoError]

(***************************************************************************)
(* Transport  (src/unnamed/part_003)                                       *)
(***************************************************************************)
\* the nil *http.Response
NilResponse == [nil |-> TRUE]

\* what the base RoundTripper returns: a response (or nil) and an error
Response(headers) == [StatusCode |-> 200, Header |-> headers]

\* Transport.RoundTrip looking at the response only when the base RoundTripper
\* returned no error
TransportRoundTripSkipsOnError(l, base) ==
    IF base.resp # NilResponse /\ base.err = NoError
    THEN LET p == LimitsParse(l, base.resp.Header)
         IN  IF p.err # NoError
             THEN [limits |-> l, stored |-> <<>>, calls |-> <<>>,
                   resp |-> NilResponse, err |-> p.err]
             ELSE [limits |-> p.limits, stored |-> p.stored, calls |-> p.calls,
                   resp |-> base.resp, err |-> base.err]
    ELSE [limits |-> l, stored |-> <<>>, calls |-> <<>>,
          resp |-> base.resp, err |-> base.err]

\* Transport.RoundTrip keeping the error of the base RoundTripper, when there
\* is one, over the parse error
TransportRoundTripKeepsBaseError(l, base) ==
    IF base.resp # NilResponse
    THEN LET p == LimitsParse(l, base.resp.Header)
         IN  IF p.err # NoError
             THEN [limits |-> l, stored |-> <<>>, calls |-> <<>>,
                   resp |-> NilResponse,
                   err |-> IF base.err # NoError THEN base.err ELSE p.err]
             ELSE [limits |-> p.limits, stored |-> p.stored, calls |-> p.calls,
                   resp |-> base.resp, err |-> base.err]
    ELSE [limits |-> l, stored |-> <<>>, calls |-> <<>>,
          resp |-> base.resp, err |-> base.err]

\* RoundTrip returning no error whenever it returns a response
TransportRoundTripDropsError(l, base) ==
    IF base.resp # NilResponse
    THEN LET p == LimitsParse(l, base.resp.Header)
         IN  IF p.err # NoError
             THEN [limits |-> l, stored |-> <<>>, calls |-> <<>>,
                   resp |-> NilResponse, err |-> p.err]
             ELSE [limits |-> p.limits, stored |-> p.stored, calls |-> p.calls,
                   resp |-> base.resp, err |-> NoError]
    ELSE [limits |-> l, stored |-> <<>>, calls |-> <<>>,
          resp |-> base.resp, err |-> base.err]

\* Transport.RoundTrip, given what Base.RoundTrip returned: a response is
\* parsed into the Transport's own Limits, and a parse error replaces both
\* the response and the error of the base
TransportRoundTrip(l, base) ==
    IF base.resp # NilResponse
    THEN LET p == LimitsParse(l, base.resp.Header)
         IN  IF p.err # NoError
             THEN [limits |-> l, stored |-> <<>>, calls |-> <<>>,
                   resp |-> NilResponse, err |-> p.err]
             ELSE [limits |-> p.limits, stored |-> p.stored, calls |-> p.calls,
                   resp |-> base.resp, err |-> base.err]
    ELSE [limits |-> l, stored |-> <<>>, calls |-> <<>>,
          resp |-> base.resp, err |-> base.err]

(***************************************************************************)
(* InferResource  (src/unnamed/part_000).  A URL path is the sequence of   *)
(* its segments: "/search/code" is <<"search", "code">> and "/search/" is  *)
(* <<"search", "">>.                                                       *)
(***************************************************************************)
Request(method, path) == [Method |-> method, Path |-> path]

\* InferResource classifying req.URL.Path as it is
TrimNothing(path) == path

\* strings.TrimPrefix(path, "/api/v3")
TrimApiV3(path) ==
    IF Len(path) >= 2 /\ path[1] = "api" /\ path[2] = "v3"
    THEN SubSeq(path, 3, Len(path))
    ELSE path

\* strings.HasPrefix(path, "/" + first + "/")
HasPrefix(path, first) == Len(path) >= 2 /\ path[1] = first

\* strings.HasSuffix(path, "/" + last), for a path with a first segment
HasSuffix(path, last) == Len(path) >= 1 /\ path[Len(path)] = last

\* strings.Contains(path, "/" + a + "/")
ContainsSegment(path, a) == \E i \in 1..(Len(path) - 1) : path[i] = a

\* strings.Contains(path, "/" + a + "/" + b)
ContainsPair(path, a, b) ==
    \E i \in 1..(Len(path) - 1) : path[i] = a /\ path[i + 1] = b

\* InferResource with no resource assumed for the paths no rule matches
InferResourceWithoutDefault(req) ==
    LET path == TrimApiV3(req.Path)
    IN  IF HasPrefix(path, "search")
        THEN IF path = <<"search", "code">> THEN ResourceCodeSearch
             ELSE ResourceSearch
        ELSE IF path = <<"graphql">>
        THEN ResourceGraphQL
        ELSE IF HasPrefix(path, "app-manifests")
        THEN ResourceIntegrationManifest
        ELSE IF /\ HasPrefix(path, "repos")
                /\ Len(path) >= 3 /\ path[Len(path) - 1] = "code-scanning"
                /\ HasSuffix(path, "sarifs")
                /\ req.Method = "POST"
        THEN ResourceCodeScanningUpload
        ELSE IF /\ HasPrefix(path, "repos")
                /\ \E i \in 1..(Len(path) - 2) :
                      path[i] = "code-scanning" /\ path[i + 1] = "alerts"
                /\ HasSuffix(path, "autofix")
                /\ req.Method = "POST"
        THEN ResourceCodeScanningAutofix
        ELSE IF /\ Len(path) >= 3 /\ path[1] = "actions" /\ path[2] = "runners"
                /\ path[3] = "registration-token"
                /\ req.Method = "POST"
        THEN ResourceActionsRunnerRegistration
        ELSE IF Len(path) >= 3 /\ path[1] = "scim" /\ path[2] = "v2"
        THEN ResourceSCIM
        ELSE IF HasPrefix(path, "repos") /\ ContainsSegment(path, "dependency-graph")
        THEN ResourceDependencySnapshots
        ELSE IF /\ HasPrefix(path, "enterprises") \/ HasPrefix(path, "organizations")
                /\ HasSuffix(path, "audit-log")
        THEN ResourceAuditLog
        ELSE IF /\ HasPrefix(path, "enterprises") \/ HasPrefix(path, "organizations")
                /\ ContainsPair(path, "audit-log", "streams")
        THEN ResourceAuditLogStreaming
        ELSE ""

\* InferResource
InferResource(req) ==
    LET path == TrimApiV3(req.Path)
    IN  IF HasPrefix(path, "search")
        THEN IF path = <<"search", "code">> THEN ResourceCodeSearch
             ELSE ResourceSearch
        ELSE IF path = <<"graphql">>
        THEN ResourceGraphQL
        ELSE IF HasPrefix(path, "app-manifests")
        THEN ResourceIntegrationManifest
        ELSE IF /\ HasPrefix(path, "repos")
                /\ Len(path) >= 3 /\ path[Len(path) - 1] = "code-scanning"
                /\ HasSuffix(path, "sarifs")
                /\ req.Method = "POST"
        THEN ResourceCodeScanningUpload
        ELSE IF /\ HasPrefix(path, "repos")
                /\ \E i \in 1..(Len(path) - 2) :
                      path[i] = "code-scanning" /\ path[i + 1] = "alerts"
                /\ HasSuffix(path, "autofix")
                /\ req.Method = "POST"
        THEN ResourceCodeScanningAutofix
        ELSE IF /\ Len(path) >= 3 /\ path[1] = "actions" /\ path[2] = "runners"
                /\ path[3] = "registration-token"
                /\ req.Method = "POST"
        THEN ResourceActionsRunnerRegistration
        ELSE IF Len(path) >= 3 /\ path[1] = "scim" /\ path[2] = "v2"
        THEN ResourceSCIM
        ELSE IF HasPrefix(path, "repos") /\ ContainsSegment(path, "dependency-graph")
        THEN ResourceDependencySnapshots
        ELSE IF /\ HasPrefix(path, "enterprises") \/ HasPrefix(path, "organizations")
                /\ HasSuffix(path, "audit-log")
        THEN ResourceAuditLog
        ELSE IF /\ HasPrefix(path, "enterprises") \/ HasPrefix(path, "organizations")
                /\ ContainsPair(path, "audit-log", "streams")
        THEN ResourceAuditLogStreaming
        ELSE ResourceCore

(***************************************************************************)
(* BalancingTransport  (src/balancing.go)                                  *)
(***************************************************************************)
\* extractValues reading the rate of core whatever the resource
extractValuesOfCore(resource, t) ==
    IF t # NilTransport /\ Load(limits[t], ResourceCore) # NilRate
    THEN <<Load(limits[t], ResourceCore).remaining, Load(limits[t], ResourceCore).reset>>
    ELSE <<0, 0>>

\* extractValues: the remaining tokens and the reset epoch Transport t holds
\* for the resource; zero values for the nil Transport and for no entry
extractValues(resource, t) ==
    IF t # NilTransport /\ Load(limits[t], resource) # NilRate
    THEN <<Load(limits[t], resource).remaining, Load(limits[t], resource).reset>>
    ELSE <<0, 0>>

\* resetIsInPastAndEarlierThanOther without the case of a zero otherReset
resetIsInPastAndBeforeOther(reset, otherReset) ==
    reset # 0 /\ reset < now /\ reset < otherReset

\* resetIsInPastAndEarlierThanOther
resetIsInPastAndEarlierThanOther(reset, otherReset) ==
    reset # 0 /\ reset < now /\ (otherReset = 0 \/ reset < otherReset)

\* StrategyMostRemaining with >= for >: a tie goes to the later candidate
StrategyMostRemainingTiesToCandidate(resource, best, candidate) ==
    IF extractValues(resource, candidate)[1] >= extractValues(resource, best)[1]
    THEN candidate ELSE best

\* StrategyMostRemaining taking the first candidate folded as provisional best
StrategyMostRemainingFirstBecomesBest(resource, best, candidate) ==
    IF \/ best = NilTransport
       \/ extractValues(resource, candidate)[1] > extractValues(resource, best)[1]
    THEN candidate ELSE best

StrategyMostRemaining(resource, best, candidate) ==
    LET bestRem      == extractValues(resource, best)[1]
        candidateRem == extractValues(resource, candidate)[1]
    IN  IF candidateRem > bestRem THEN candidate ELSE best

\* StrategyResetTimeInPastAndMostRemaining preferring the sooner reset
\* whatever the remaining tokens of that side
StrategyResetTimeSoonerAlwaysWins(resource, best, candidate) ==
    LET bestRem        == extractValues(resource, best)[1]
        bestReset      == extractValues(resource, best)[2]
        candidateRem   == extractValues(resource, candidate)[1]
        candidateReset == extractValues(resource, candidate)[2]
    IN  IF bestRem = 0 /\ candidateRem = 0
        THEN NilTransport
        ELSE IF resetIsInPastAndEarlierThanOther(candidateReset, bestReset)
        THEN candidate
        ELSE IF resetIsInPastAndEarlierThanOther(bestReset, candidateReset)
        THEN best
        ELSE IF candidateReset # 0 /\ bestReset # 0 /\ candidateReset < bestReset
        THEN candidate
        ELSE IF candidateReset # 0 /\ bestReset # 0 /\ bestReset < candidateReset
        THEN best
        ELSE IF candidateRem > bestRem
        THEN candidate
        ELSE best

\* StrategyResetTimeInPastAndMostRemaining without its fast path
StrategyResetTimeWithoutFastPath(resource, best, candidate) ==
    LET bestRem        == extractValues(resource, best)[1]
        bestReset      == extractValues(resource, best)[2]
        candidateRem   == extractValues(resource, candidate)[1]
        candidateReset == extractValues(resource, candidate)[2]
    IN  IF resetIsInPastAndEarlierThanOther(candidateReset, bestReset)
        THEN candidate
        ELSE IF resetIsInPastAndEarlierThanOther(bestReset, candidateReset)
        THEN best
        ELSE IF /\ candidateReset # 0 /\ bestReset # 0
                /\ candidateReset < bestReset /\ candidateRem > 0
        THEN candidate
        ELSE IF /\ candidateReset # 0 /\ bestReset # 0
                /\ bestReset < candidateReset /\ bestRem > 0
        THEN best
        ELSE IF candidateRem > bestRem
        THEN candidate
        ELSE best

StrategyResetTimeInPastAndMostRemaining(resource, best, candidate) ==
    LET bestRem        == extractValues(resource, best)[1]
        bestReset      == extractValues(resource, best)[2]
        candidateRem   == extractValues(resource, candidate)[1]
        candidateReset == extractValues(resource, candidate)[2]
    IN  IF bestRem = 0 /\ candidateRem = 0
        THEN NilTransport
        ELSE IF resetIsInPastAndEarlierThanOther(candidateReset, bestReset)
        THEN candidate
        ELSE IF resetIsInPastAndEarlierThanOther(bestReset, candidateReset)
        THEN best
        ELSE IF /\ candidateReset # 0 /\ bestReset # 0
                /\ candidateReset < bestReset /\ candidateRem > 0
        THEN candidate
        ELSE IF /\ candidateReset # 0 /\ bestReset # 0
                /\ bestReset < candidateReset /\ bestRem > 0
        THEN best
        ELSE IF candidateRem > bestRem
        THEN candidate
        ELSE best

\* the strategies a BalancingTransport of the model is built with:
\* NewBalancingTransport's default, and WithStrategy's argument
Strategies == {"StrategyMostRemaining", "StrategyResetTimeInPastAndMostRemaining"}

\* bt.strategy(resource, bestTransport, t)
ApplyStrategy(resource, best, candidate) ==
    IF strategy = "StrategyMostRemaining"
    THEN StrategyMostRemaining(resource, best, candidate)
    ELSE StrategyResetTimeInPastAndMostRemaining(resource, best, candidate)

\* the loop of RoundTrip from candidate i on: bestTransport after the last one
RECURSIVE FoldStrategy(_, _, _)
FoldStrategy(resource, best, i) ==
    IF i > Len(transports) THEN best
    ELSE FoldStrategy(resource, ApplyStrategy(resource, best, transports[i]), i + 1)

\* one evaluation of bt.strategy: its arguments and what it returned
StrategyCall(resource, best, candidate) ==
    [strategy |-> strategy, resource |-> resource, best |-> best,
     candidate |-> candidate, result |-> ApplyStrategy(resource, best, candidate)]

\* the loop of RoundTrip forgetting bestTransport: every call is given nil
RECURSIVE FoldCallsWithoutMemory(_, _, _)
FoldCallsWithoutMemory(resource, best, i) ==
    IF i > Len(transports) THEN <<>>
    ELSE <<StrategyCall(resource, NilTransport, transports[i])>>
         \o FoldCallsWithoutMemory(resource, NilTransport, i + 1)

\* the loop of RoundTrip from candidate i on: the evaluations of bt.strategy
\* it makes, in their order
RECURSIVE FoldCalls(_, _, _)
FoldCalls(resource, best, i) ==
    IF i > Len(transports) THEN <<>>
    ELSE <<StrategyCall(resource, best, transports[i])>>
         \o FoldCalls(resource, ApplyStrategy(resource, best, transports[i]), i + 1)

\* WithStrategy(strategy) for each strategy of the model
BalancingOptions == {<<>>} \cup {<<s>> : s \in Strategies}

\* NewBalancingTransport(transports, opts...): bt.strategy after the options
\* from option i on
RECURSIVE NewBalancingTransport(_, _, _)
NewBalancingTransport(current, opts, i) ==
    IF i > Len(opts) THEN current
    ELSE NewBalancingTransport(opts[i], opts, i + 1)

\* what the fold read of each candidate, in list order: <<remaining, reset>>
SeenByFold(resource) ==
    [i \in 1..Len(transports) |-> extractValues(resource, transports[i])]

\* no RoundTrip of the BalancingTransport has been called yet
Idle == [state |-> "idle"]

\* no operation has been called on a Limits yet
NoOp == [name |-> "none"]

\* context.Background(), or a context that has not been cancelled: Done is open
Background == [done |-> FALSE]

\* no Poll of a BalancingTransport has been called
NotPolling == [pc |-> "none"]

\* no Store call is being followed
NoHistory == [called |-> {}, last |-> <<>>, notified |-> <<>>]

\* the requests sent through the BalancingTransport: GET /user
BalancedRequests == {Request("GET", <<"user">>)}

\* what the base RoundTripper of a balanced Transport answers: a 200 response
\* with no rate-limit header, and no error
BalancedAnswers == {[resp |-> Response(EmptyHeader), err |-> NoError]}

\* the rates a balanced Transport has observed for a resource: as in the
\* tests, &Rate{Remaining: n}, here with a Reset as well
BalancedRates ==
    {Rate(0, 0, rem, rst) : rem \in Remainings, rst \in Epochs}

\* the resources a balanced Transport has observed rates for
BalancedResources == {ResourceCore}

\* rand.Intn replaced by a constant: the fallback always takes the first
IntnAlwaysZero(n) == {0}

\* the values rand.Intn(n) may return
Intn(n) == 0..(n - 1)

\* bt.transports[rand.Intn(len(bt.transports))]: the candidates the fallback
\* may draw
FallbackChoices == {transports[n + 1] : n \in Intn(Len(transports))}

\* RoundTripFails returning nil, nil
RoundTripFailsWithoutError(req, resource, message) ==
    /\ rt' = [state |-> "done", req |-> req, resource |-> resource,
              seen |-> <<>>, best |-> NilTransport, chosen |-> NilTransport,
              strategyCalls |-> 0, calls |-> <<>>, executed |-> <<>>,
              resp |-> NilResponse, err |-> NoError]
    /\ UNCHANGED limits

\* RoundTrip returns before the strategy is called
RoundTripFails(req, resource, message) ==
    /\ rt' = [state |-> "done", req |-> req, resource |-> resource,
              seen |-> <<>>, best |-> NilTransport, chosen |-> NilTransport,
              strategyCalls |-> 0, calls |-> <<>>, executed |-> <<>>,
              resp |-> NilResponse, err |-> message]
    /\ UNCHANGED limits

\* Limits.Load creating a zero Rate for a resource the Limits does not hold
LoadOrStoreZero(l, resource) ==
    IF resource \in DOMAIN l.m
    THEN l
    ELSE [l EXCEPT !.m = MapStore(l.m, resource, Rate(0, 0, 0, 0))]

\* the Limits after Limits.Load: sync.Map.Load writes nothing, found or not
AfterLoad(l, resource) == l

\* the registries after the fold: extractValues has called Load on the Limits
\* of every candidate, and done nothing else to it
AfterFold(resource) ==
    [t \in DOMAIN limits |->
        IF \E i \in 1..Len(transports) : transports[i] = t
        THEN AfterLoad(limits[t], resource)
        ELSE limits[t]]

\* RoundTrip sending the request through every candidate, and returning the
\* result of the chosen one
RoundTripDelegatesToAll(req, resource, best, chosen, base) ==
    LET r == TransportRoundTrip(AfterFold(resource)[chosen], base)
    IN  /\ limits' = [t \in DOMAIN limits |->
                        TransportRoundTrip(AfterFold(resource)[t], base).limits]
        /\ rt' = [state |-> "done", req |-> req, resource |-> resource,
                  seen |-> SeenByFold(resource), best |-> best, chosen |-> chosen,
                  strategyCalls |-> Len(transports),
                  calls |-> FoldCalls(resource, NilTransport, 1),
                  folded |-> AfterFold(resource),
                  executed |-> transports,
                  resp |-> r.resp, err |-> r.err]

\* bestTransport.RoundTrip(req), and what RoundTrip returns from it
RoundTripDelegates(req, resource, best, chosen, base) ==
    LET r == TransportRoundTrip(AfterFold(resource)[chosen], base)
    IN  /\ limits' = [AfterFold(resource) EXCEPT ![chosen] = r.limits]
        /\ rt' = [state |-> "done", req |-> req, resource |-> resource,
                  seen |-> SeenByFold(resource), best |-> best, chosen |-> chosen,
                  strategyCalls |-> Len(transports),
                  calls |-> FoldCalls(resource, NilTransport, 1),
                  folded |-> AfterFold(resource),
                  executed |-> <<chosen>>,
                  resp |-> r.resp, err |-> r.err]

\* BalancingTransport.RoundTrip(req), the base RoundTrippers answering with
\* one of answers
RoundTripWith(req, answers) ==
    LET resource == InferResource(req)
        best     == FoldStrategy(resource, NilTransport, 1)
    IN  IF Len(transports) = 0
        THEN RoundTripFails(req, "", "no transports available")
        ELSE IF resource = ""
        THEN RoundTripFails(req, resource, "unknown resource for request")
        ELSE \E base \in answers :
                IF best = NilTransport
                THEN \E chosen \in FallbackChoices :
                        RoundTripDelegates(req, resource, best, chosen, base)
                ELSE RoundTripDelegates(req, resource, best, best, base)

\* BalancingTransport.RoundTrip(req)
RoundTripOf(req) == RoundTripWith(req, BalancedAnswers)

\* BalancingTransport.RoundTrip
BalancingRoundTrip ==
    /\ rt = Idle
    /\ \E req \in BalancedRequests : RoundTripOf(req)
    /\ UNCHANGED <<transports, strategy, now, op, goroutines, history, ctx, poll>>

\* t.Limits.Store(nil, resource, &rate) on a candidate, before the request
BalancedStore ==
    /\ rt = Idle
    /\ \E t \in 1..Len(transports), resource \in BalancedResources,
          rate \in BalancedRates :
          limits' = [limits EXCEPT ![t] = LimitsStore(limits[t], resource, rate).limits]
    /\ UNCHANGED <<transports, strategy, now, rt, op, goroutines, history, ctx, poll>>

\* a second passes
Tick ==
    /\ rt = Idle
    /\ now + 1 \in Epochs
    /\ now' = now + 1
    /\ UNCHANGED <<transports, strategy, limits, rt, op, goroutines, history, ctx, poll>>

\* NewBalancingTransport over 0..MaxTransports fresh Transports (NewTransport
\* without WithNotifyCallback), with either strategy
InitBalancing ==
    /\ \E n \in 0..MaxTransports : transports = [i \in 1..n |-> i]
    /\ \E opts \in BalancingOptions :
          strategy = NewBalancingTransport("StrategyMostRemaining", opts, 1)
    /\ limits = [t \in 1..Len(transports) |-> NewLimits(FALSE)]
    /\ now = 1
    /\ rt = Idle
    /\ op = NoOp
    /\ goroutines = <<>>
    /\ history = NoHistory
    /\ ctx = Background
    /\ poll = NotPolling

NextBalancing == BalancedStore \/ Tick \/ BalancingRoundTrip

SpecBalancing == InitBalancing /\ [][NextBalancing]_vars

(***************************************************************************)
(* Properties of BalancingTransport.RoundTrip and of the two strategies.   *)
(* rt.seen[i] is what the fold read of candidate i; the base RoundTrippers *)
(* of SpecBalancing answer without rate-limit headers, so the registries   *)
(* after the call are those the fold read.                                 *)
(***************************************************************************)
Done == rt.state = "done"

Candidates == 1..Len(transports)

SeenRemaining(i) == rt.seen[i][1]

SeenReset(i) == rt.seen[i][2]

\* the first candidate of the list whose remaining no other candidate exceeds
FirstMaximum ==
    CHOOSE i \in Candidates :
        /\ \A j \in Candidates : SeenRemaining(j) <= SeenRemaining(i)
        /\ \A j \in 1..(i - 1) : SeenRemaining(j) < SeenRemaining(i)

\* C1: with StrategyMostRemaining, when some candidate has remaining > 0 for
\* the request's resource, RoundTrip executes the request on the candidate with
\* the maximum remaining, the earliest in the list among those tied for it, and
\* on no other; the candidate it picks has a known rate for the resource.
C1_MostRemainingPicksFirstMaximum ==
    (/\ Done
     /\ strategy = "StrategyMostRemaining"
     /\ \E i \in Candidates : SeenRemaining(i) > 0)
    => /\ rt.best = transports[FirstMaximum]
       /\ rt.chosen = rt.best
       /\ rt.executed = <<rt.best>>
       /\ Load(limits[rt.chosen], rt.resource) # NilRate
       /\ Load(limits[rt.chosen], rt.resource).remaining > 0

\* C1 witness: an unknown candidate first, then two candidates tied for the
\* maximum: the earlier of the two was picked.
C1_Witness ==
    /\ Done
    /\ strategy = "StrategyMostRemaining"
    /\ Len(transports) = 3
    /\ Load(limits[1], rt.resource) = NilRate
    /\ SeenRemaining(2) = 2 /\ SeenRemaining(3) = 2
    /\ rt.chosen = 2

C3_NoneFallsBackToAnyCandidate ==
    /\ (Done /\ Len(transports) > 0 /\ rt.best = NilTransport)
       => /\ rt.chosen \in Candidates
          /\ rt.executed = <<rt.chosen>>
          /\ rt.err = NoError
          /\ rt.resp # NilResponse
    /\ Len(transports) > 0 => FallbackChoices = {transports[i] : i \in Candidates}

\* C3 witness: three candidates, none from the fold, the last one drawn.
C3_Witness ==
    /\ Done
    /\ Len(transports) = 3
    /\ rt.best = NilTransport
    /\ rt.chosen = 3
    /\ rt.err = NoError

\* C4: on an empty candidate list RoundTrip returns an error and a nil
\* response, and has called neither the strategy nor a transport.
C4_EmptyListFails ==
    (Done /\ Len(transports) = 0)
    => /\ rt.err = "no transports available"
       /\ rt.resp = NilResponse
       /\ rt.strategyCalls = 0
       /\ rt.executed = <<>>
       /\ rt.chosen = NilTransport

\* C4 witness: RoundTrip has returned on the empty list.
C4_Witness == Done /\ Len(transports) = 0 /\ rt.err # NoError

ResetAware == strategy = "StrategyResetTimeInPastAndMostRemaining"

\* a reset epoch that is set and already elapsed
Elapsed(reset) == reset # 0 /\ reset < now

\* C5: StrategyResetTimeInPastAndMostRemaining returns none whenever the
\* current best (none included) and the candidate both have remaining 0, an
\* unknown rate counting as 0, whatever their reset times; so the fold over a
\* list in which every candidate has remaining 0 yields none.
C5_BothZeroYieldsNone ==
    /\ \A resource \in BalancedResources :
          \A best \in Candidates \cup {NilTransport}, candidate \in Candidates :
              (/\ extractValues(resource, best)[1] = 0
               /\ extractValues(resource, candidate)[1] = 0)
              => StrategyResetTimeInPastAndMostRemaining(resource, best, candidate)
                     = NilTransport
    /\ (/\ Done /\ ResetAware /\ Len(transports) > 0
        /\ \A i \in Candidates : SeenRemaining(i) = 0)
       => rt.best = NilTransport

\* C5 witness: two candidates with remaining 0, one of them with a reset that
\* has elapsed, the other with a later one: the fold yielded none.
C5_Witness ==
    /\ Done /\ ResetAware
    /\ Len(transports) = 2
    /\ SeenRemaining(1) = 0 /\ SeenRemaining(2) = 0
    /\ Elapsed(SeenReset(2)) /\ SeenReset(1) > SeenReset(2)
    /\ Load(limits[1], rt.resource) # NilRate
    /\ rt.best = NilTransport

\* C6 as claimed: folded from none over two candidates, one with an elapsed
\* reset and remaining 0, the other with a reset still to come and remaining
\* > 0, StrategyResetTimeInPastAndMostRemaining yields the former, in either
\* list order.
C6_Claimed_ElapsedResetWins ==
    (/\ Done /\ ResetAware
     /\ Len(transports) = 2)
    => \A a \in Candidates, b \in Candidates :
          (/\ Elapsed(SeenReset(a)) /\ SeenRemaining(a) = 0
           /\ SeenReset(b) > now /\ SeenRemaining(b) > 0)
          => rt.best = transports[a]

\* C7 as claimed: with StrategyResetTimeInPastAndMostRemaining the fold yields
\* none only when no candidate of the list has remaining > 0 for the resource.
C7_Claimed_NoneOnlyWithoutCapacity ==
    (Done /\ ResetAware /\ Len(transports) > 0 /\ rt.best = NilTransport)
    => \A i \in Candidates : SeenRemaining(i) = 0

(***************************************************************************)
(* One Limits used from a single goroutine: Store and Parse are called one *)
(* after the other, each running to its end (callback included).           *)
(***************************************************************************)
\* the rates stored and sent: remaining = limit - used in the first, not in
\* the two others
StoredRates == {Rate(12, 5, 7, 3), Rate(5, 5, 5, 0), Rate(0, 0, 0, 10)}

\* the resources stored and sent
StoredResources == {ResourceCore, ResourceSearch}

\* strconv.FormatUint(n, 10), the way the server writes a counter
DigitOf(d) ==
    CASE d = 0 -> "0" [] d = 1 -> "1" [] d = 2 -> "2" [] d = 3 -> "3"
      [] d = 4 -> "4" [] d = 5 -> "5" [] d = 6 -> "6" [] d = 7 -> "7"
      [] d = 8 -> "8" [] d = 9 -> "9"

RECURSIVE FormatUint(_)
FormatUint(n) ==
    IF n < 10 THEN <<DigitOf(n)>>
    ELSE FormatUint(n \div 10) \o <<DigitOf(n % 10)>>

\* header values that are no decimal number: absent, "-1", "1x", "invalid"
Malformed ==
    { <<>>, <<"-", "1">>, <<"1", "x">>, <<"i", "n", "v", "a", "l", "i", "d">> }

Fields == {"limit", "used", "remaining", "reset"}

\* the headers of a response that reports rate for resource res: each counter
\* in decimal after `zeros` leading zeros, the fields of `bad` replaced by junk
FormatHeaders(res, rate, zeros, bad, junk) ==
    LET value(f) == IF f \in bad THEN junk
                    ELSE [i \in 1..zeros |-> "0"] \o FormatUint(rate[f])
    IN  Header(res, value("limit"), value("used"), value("remaining"), value("reset"))

\* the header sets with four decimal counters, with and without a leading zero
WellFormedHeaderSets ==
    { FormatHeaders(res, rate, zeros, {}, <<>>) :
        res \in StoredResources \cup {""}, rate \in StoredRates, zeros \in {0, 1} }

\* the header sets with one counter, or all four, that is no decimal number
MalformedHeaderSets ==
    { FormatHeaders(res, rate, 0, bad, junk) :
        res \in StoredResources \cup {""}, rate \in StoredRates,
        bad \in {{f} : f \in Fields} \cup {Fields}, junk \in Malformed }

\* the header sets received
HeaderSets == WellFormedHeaderSets \cup MalformedHeaderSets

\* the *Rate arguments of Store: a pointer to one of the rates, or nil
StoreArguments == StoredRates \cup {NilRate}

\* the last rate written for each resource, after the map writes `stored`
RECURSIVE LastWritten(_, _)
LastWritten(last, stored) ==
    IF Len(stored) = 0 THEN last
    ELSE LastWritten([k \in DOMAIN last \cup {stored[1][1]} |->
                         IF k = stored[1][1] THEN stored[1][2] ELSE last[k]],
                     Tail(stored))

\* limits.Store(resp, resource, rate)
Store ==
    /\ \E resource \in StoredResources, rate \in StoreArguments :
          LET s == LimitsStore(limits[1], resource, rate)
          IN  /\ limits' = [limits EXCEPT ![1] = s.limits]
              /\ op' = [name |-> "Store", resource |-> resource, rate |-> rate,
                        stored |-> s.stored, calls |-> s.calls, err |-> NoError]
              /\ history' = [history EXCEPT !.last = LastWritten(@, s.stored)]
    /\ UNCHANGED <<transports, strategy, now, rt, goroutines, ctx, poll>>

\* limits.Parse(resp)
Parse ==
    /\ \E headers \in HeaderSets :
          LET r == LimitsParse(limits[1], headers)
          IN  /\ limits' = [limits EXCEPT ![1] = r.limits]
              /\ op' = [name |-> "Parse", headers |-> headers,
                        stored |-> r.stored, calls |-> r.calls, err |-> r.err]
              /\ history' = [history EXCEPT !.last = LastWritten(@, r.stored)]
    /\ UNCHANGED <<transports, strategy, now, rt, goroutines, ctx, poll>>

\* var limits Limits, with or without a Notify callback
InitLimits ==
    /\ transports = <<>>
    /\ strategy = "StrategyMostRemaining"
    /\ \E withNotify \in BOOLEAN : limits = <<NewLimits(withNotify)>>
    /\ now = 1
    /\ rt = Idle
    /\ op = NoOp
    /\ goroutines = <<>>
    /\ history = NoHistory
    /\ ctx = Background
    /\ poll = NotPolling

NextLimits == Store \/ Parse

SpecLimits == InitLimits /\ [][NextLimits]_vars

(***************************************************************************)
(* One Limits shared by goroutines that call Store and Load concurrently.  *)
(* A Store call is two steps, the sync.Map write and then the callback;    *)
(* a Load call is the one sync.Map read.                                   *)
(***************************************************************************)
\* the goroutines that call Store
MaxGoroutines == 2

Goroutines == 1..MaxGoroutines

\* the resources the goroutines store
SharedResources == {ResourceCore}

\* a goroutine outside a Store call
Returned == [pc |-> "idle"]

\* the goroutines after goroutine p has written rate for resource: p is past
\* its map write, every other goroutine that is past its own write for the
\* resource has seen one more write since, and so has every goroutine that
\* is ranging over the map
AfterWrite(p, resource, rate) ==
    [q \in DOMAIN goroutines |->
        IF q = p
        THEN [pc |-> "notify", resource |-> resource, rate |-> rate, since |-> {}]
        ELSE IF goroutines[q].pc = "notify" /\ goroutines[q].resource = resource
        THEN [goroutines[q] EXCEPT !.since = @ \cup {rate}]
        ELSE IF goroutines[q].pc = "Range"
        THEN [goroutines[q] EXCEPT !.during[resource] = @ \cup {rate}]
        ELSE goroutines[q]]

\* Store calling the callback without having written the map
StoreWriteLeftOut(p) ==
    /\ goroutines[p] = Returned
    /\ \E resource \in SharedResources, rate \in StoredRates :
          /\ goroutines' = AfterWrite(p, resource, rate)
          /\ history' = [history EXCEPT
                            !.called = @ \cup {<<resource, rate>>},
                            !.last = LastWritten(@, <<<<resource, rate>>>>)]
    /\ UNCHANGED <<transports, strategy, limits, now, rt, op, ctx, poll>>

\* Store holding a lock from its map write to the return of its callback
StoreWriteOfUnderLock(p, resource, rate) ==
    /\ goroutines[p] = Returned
    /\ \A q \in DOMAIN goroutines : goroutines[q].pc # "notify"
    /\ limits' = [limits EXCEPT ![1].m = MapStore(@, resource, rate)]
    /\ goroutines' = AfterWrite(p, resource, rate)
    /\ history' = [history EXCEPT
                      !.called = @ \cup {<<resource, rate>>},
                      !.last = LastWritten(@, <<<<resource, rate>>>>)]
    /\ UNCHANGED <<transports, strategy, now, rt, op, ctx, poll>>

\* Store(resp, resource, rate), line 33: l.m.Store(resource, rate)
StoreWriteOf(p, resource, rate) ==
    /\ goroutines[p] = Returned
    /\ limits' = [limits EXCEPT ![1].m = MapStore(@, resource, rate)]
    /\ goroutines' = AfterWrite(p, resource, rate)
    /\ history' = [history EXCEPT
                      !.called = @ \cup {<<resource, rate>>},
                      !.last = LastWritten(@, <<<<resource, rate>>>>)]
    /\ UNCHANGED <<transports, strategy, now, rt, op, ctx, poll>>

\* Store, line 33: l.m.Store(resource, rate)
StoreWrite(p) ==
    \E resource \in SharedResources, rate \in StoredRates :
       StoreWriteOf(p, resource, rate)

\* Store, lines 34-36: the callback, if there is one, and the return.  The
\* callback is given the resource and the rate of this call; `loaded` is what a
\* Load of the resource returns while the callback runs.
StoreNotify(p) ==
    /\ goroutines[p].pc = "notify"
    /\ goroutines' = [goroutines EXCEPT ![p] = Returned]
    /\ IF limits[1].Notify
       THEN /\ op' = [name |-> "Notify", resource |-> goroutines[p].resource,
                      rate |-> goroutines[p].rate,
                      loaded |-> Load(limits[1], goroutines[p].resource),
                      since |-> goroutines[p].since]
            /\ history' = [history EXCEPT
                              !.notified = LastWritten(@,
                                  <<<<goroutines[p].resource, goroutines[p].rate>>>>)]
       ELSE UNCHANGED <<op, history>>
    /\ UNCHANGED <<transports, strategy, limits, now, rt, ctx, poll>>

\* limits.Load(resource), from any goroutine
ConcurrentLoad ==
    /\ \E resource \in SharedResources :
          op' = [name |-> "Load", resource |-> resource,
                 result |-> Load(limits[1], resource)]
    /\ UNCHANGED <<transports, strategy, limits, now, rt, goroutines, history, ctx, poll>>

InitConcurrent ==
    /\ transports = <<>>
    /\ strategy = "StrategyMostRemaining"
    /\ \E withNotify \in BOOLEAN : limits = <<NewLimits(withNotify)>>
    /\ now = 1
    /\ rt = Idle
    /\ op = NoOp
    /\ goroutines = [p \in Goroutines |-> Returned]
    /\ history = NoHistory
    /\ ctx = Background
    /\ poll = NotPolling

NextConcurrent ==
    \/ \E p \in Goroutines : StoreWrite(p)
    \/ \E p \in Goroutines : StoreNotify(p)
    \/ ConcurrentLoad

SpecConcurrent == InitConcurrent /\ [][NextConcurrent]_vars

(***************************************************************************)
(* Properties of Limits.                                                   *)
(***************************************************************************)
\* C8: in a single goroutine, right after Limits.Store(resource, rate) has
\* returned, Limits.Load(resource) returns exactly the four values stored, for
\* every resource and rate.
C8_StoreThenLoad ==
    op.name = "Store" => Load(limits[1], op.resource) = op.rate

\* C8 witness: Store has returned for a resource while the registry also
\* holds another resource, and Load returns the rate just stored.
C8_Witness ==
    /\ op.name = "Store"
    /\ op.resource = ResourceSearch
    /\ op.rate = Rate(5, 5, 5, 0)
    /\ Load(limits[1], ResourceSearch) = Rate(5, 5, 5, 0)
    /\ Load(limits[1], ResourceCore) = Rate(12, 5, 7, 3)

AllReturned == \A p \in DOMAIN goroutines : goroutines[p] = Returned

\* C9: under any interleaving of concurrent Store calls for one resource, a
\* Load of the resource returns nil or the whole four-field value one Store
\* call was given, never a mix of two; and once every Store call has returned,
\* Load returns the value of the Store whose map write came last.
C9_LoadReturnsOneWholeStore ==
    /\ \A resource \in SharedResources :
          \/ Load(limits[1], resource) = NilRate
          \/ <<resource, Load(limits[1], resource)>> \in history.called
    /\ op.name = "Load"
       => \/ op.result = NilRate
          \/ <<op.resource, op.result>> \in history.called
    /\ AllReturned
       => \A resource \in DOMAIN history.last :
             Load(limits[1], resource) = history.last[resource]

\* C9 witness: two goroutines are inside Store for the same resource with
\* different rates, both past their map write, and a Load has returned the
\* rate of the second one.
C9_Witness ==
    /\ DOMAIN goroutines = Goroutines
    /\ goroutines[1] # Returned /\ goroutines[2] # Returned
    /\ goroutines[1].resource = goroutines[2].resource
    /\ goroutines[1].rate # goroutines[2].rate
    /\ op.name = "Load"
    /\ op.resource = goroutines[2].resource
    /\ op.result = goroutines[2].rate

\* C10: for a header set with a non-empty resource and four decimal counters
\* (with or without leading zeros), Limits.Parse returns no error and Load of
\* the resource then returns exactly the four numbers sent, remaining included
\* whether or not it equals limit - used.
C10_ParseThenLoad ==
    \A res \in StoredResources, rate \in StoredRates, zeros \in {0, 1} :
        (op.name = "Parse" /\ op.headers = FormatHeaders(res, rate, zeros, {}, <<>>))
        => /\ op.err = NoError
           /\ Load(limits[1], res) = rate

\* C10 witness: Parse has returned for limit "05", used "05", remaining "05",
\* reset "00", where remaining is not limit - used, and Load returns 5, 5, 5, 0.
C10_Witness ==
    /\ op.name = "Parse"
    /\ op.err = NoError
    /\ op.headers = Header(ResourceCore, <<"0", "5">>, <<"0", "5">>,
                           <<"0", "5">>, <<"0", "0">>)
    /\ Load(limits[1], ResourceCore) = Rate(5, 5, 5, 0)
    /\ Load(limits[1], ResourceCore).remaining
          # Load(limits[1], ResourceCore).limit - Load(limits[1], ResourceCore).used

\* C11: for a header set with a non-empty resource in which one of the four
\* counters (or all of them) is no decimal number, Limits.Parse returns an
\* error, makes no map write and no callback, and leaves Load of every resource
\* as it was before the call.
C11_MalformedParseFails ==
    [][(/\ op'.name = "Parse"
        /\ op'.headers.resource # ""
        /\ op'.headers \in MalformedHeaderSets)
       => /\ op'.err # NoError
          /\ op'.stored = <<>>
          /\ op'.calls = <<>>
          /\ \A resource \in ValidResources :
                Load(limits'[1], resource) = Load(limits[1], resource)
          /\ limits' = limits]_vars

\* C11 witness: Parse has failed on a header set whose reset alone is "1x",
\* on a registry with a callback that holds a rate for the resource; the rate
\* held is not the one the headers carry.
C11_Witness ==
    /\ op.name = "Parse"
    /\ op.err = "failed to parse X-Ratelimit-Reset header"
    /\ op.headers = FormatHeaders(ResourceCore, Rate(12, 5, 7, 3), 0,
                                  {"reset"}, <<"1", "x">>)
    /\ limits[1].Notify
    /\ Load(limits[1], ResourceCore) = Rate(5, 5, 5, 0)

\* C12: for a header set whose resource header is absent or empty, Limits.Parse
\* returns no error, makes no map write and no callback and leaves the whole
\* registry as it was, also when the counters are no decimal numbers.
C12_NoResourceIsNoOp ==
    [][(op'.name = "Parse" /\ op'.headers.resource = "")
       => /\ op'.err = NoError
          /\ op'.stored = <<>>
          /\ op'.calls = <<>>
          /\ limits' = limits]_vars

\* C12 witness: Parse has returned no error for a header set without resource
\* whose four counters are all "invalid", on a registry that holds a rate.
C12_Witness ==
    /\ op.name = "Parse"
    /\ op.err = NoError
    /\ op.headers.resource = ""
    /\ op.headers.limit = <<"i", "n", "v", "a", "l", "i", "d">>
    /\ op.headers.reset = <<"i", "n", "v", "a", "l", "i", "d">>
    /\ limits[1].Notify
    /\ Load(limits[1], ResourceSearch) = Rate(12, 5, 7, 3)

\* the resources a Store has been applied to (by Store itself or by Parse)
EverStored == DOMAIN history.last

\* C13 as claimed: Load(resource) returns nil exactly when no Store for the
\* resource has ever been applied to the registry.
C13_Claimed_AbsentIffNeverStored ==
    \A resource \in StoredResources :
        (Load(limits[1], resource) = NilRate) <=> (resource \notin EverStored)

\* C13 amended: Load(resource) returns nil exactly when no Store for the
\* resource has been applied to the registry or the last one applied was given
\* a nil rate; and no operation removes an entry from the map.
C13_AbsentIffNeverStoredOrNil ==
    /\ [](\A resource \in StoredResources :
            (Load(limits[1], resource) = NilRate)
            <=> (resource \notin EverStored \/ history.last[resource] = NilRate))
    /\ [][DOMAIN limits[1].m \subseteq DOMAIN limits'[1].m]_vars

\* C13 witness: a rate was stored for one resource and then Store was called
\* with nil for it, while another resource still has no entry: Load returns
\* nil for both, and only one of them has an entry.
C13_Witness ==
    /\ op.name = "Store"
    /\ op.resource = ResourceCore
    /\ op.rate = NilRate
    /\ EverStored = {ResourceCore}
    /\ DOMAIN limits[1].m = {ResourceCore}
    /\ Load(limits[1], ResourceCore) = NilRate
    /\ Load(limits[1], ResourceSearch) = NilRate

\* C14: with a Notify callback configured, a Store call makes the callback once,
\* at its return and not at any other step, with the resource and the rate it
\* was given; and the map write is visible by then: a Load of the resource
\* during the callback returns the rate of this Store or of a Store that has
\* written since, and the rate of this Store when no other has written since.
C14_NotifyOnceAfterWrite ==
    /\ [](op.name = "Notify"
          => /\ limits[1].Notify
             /\ <<op.resource, op.rate>> \in history.called
             /\ op.loaded \in {op.rate} \cup op.since
             /\ op.since = {} => op.loaded = op.rate)
    /\ [][/\ \A p \in Goroutines :
                (/\ limits[1].Notify
                 /\ goroutines[p] # Returned /\ goroutines'[p] = Returned)
                => /\ op'.name = "Notify"
                   /\ op'.resource = goroutines[p].resource
                   /\ op'.rate = goroutines[p].rate
                   /\ history'.notified[op'.resource] = op'.rate
          /\ (op'.name = "Notify" /\ op' # op)
             => \E p \in Goroutines :
                   goroutines[p] # Returned /\ goroutines'[p] = Returned
          /\ history'.notified # history.notified
             => \E p \in Goroutines :
                   goroutines[p] # Returned /\ goroutines'[p] = Returned]_vars

\* C14 witness: the callback of a Store ran on a registry that held another
\* rate for the resource before, no other Store wrote in between, and the
\* Load made during the callback returned the rate just stored.
C14_Witness ==
    /\ op.name = "Notify"
    /\ op.rate = Rate(5, 5, 5, 0)
    /\ op.since = {}
    /\ op.loaded = Rate(5, 5, 5, 0)
    /\ <<op.resource, Rate(12, 5, 7, 3)>> \in history.called
    /\ AllReturned

\* C15 as claimed: for concurrent Store calls on one resource the callbacks
\* are made in the order of the map writes, so that once every Store call has
\* returned the rate given to the last callback for the resource is the rate
\* Load returns.
C15_Claimed_LastCallbackIsLoaded ==
    (AllReturned /\ limits[1].Notify)
    => \A resource \in DOMAIN history.notified :
          history.notified[resource] = Load(limits[1], resource)

(***************************************************************************)
(* Limits.Fetch  (src/unnamed/part_008).  The body of a response is what   *)
(* reading and closing it return and the JSON document read.  A document   *)
(* is text that is no JSON, or an object whose "resources" member is given *)
(* as the sequence of its members, in the order of the text: the name of a *)
(* resource and an object from field names to number literals.             *)
(***************************************************************************)
ResponseWithBody(status, headers, body) ==
    [StatusCode |-> status, Header |-> headers, Body |-> body]

Body(document) == [ReadErr |-> NoError, CloseErr |-> NoError, Document |-> document]

\* io.ReadAll(resp.Body) fails
UnreadableBody ==
    [ReadErr |-> "unexpected EOF", CloseErr |-> NoError, Document |-> <<>>]

\* resp.Body.Close() fails
UnclosableBody ==
    [ReadErr |-> NoError, CloseErr |-> "close failed", Document |-> <<>>]

\* text that is no JSON document, "rate limited" or a truncated object
NotJSON == [syntax |-> "invalid"]

\* {"resources": {...members...}}; with no member, also {} and
\* {"resources": null}
Object(members) == [syntax |-> "object", resources |-> members]

\* {"limit": l, "used": u, "remaining": rem, "reset": rst}
RateObject(rate) == [f \in Fields |-> FormatUint(rate[f])]

\* json.Unmarshal of one member value into a Rate: a field that is not in the
\* object stays 0, a number literal that is no uint64 is an error
DecodeRate(object) ==
    LET field(f) == IF f \in DOMAIN object THEN ParseUint(object[f])
                    ELSE [val |-> 0, err |-> NoError]
    IN  IF \E f \in Fields : field(f).err # NoError
        THEN [rate |-> Rate(0, 0, 0, 0),
              err |-> "json: cannot unmarshal number into Go struct field"]
        ELSE [rate |-> Rate(field("limit").val, field("used").val,
                            field("remaining").val, field("reset").val),
              err |-> NoError]

\* json.Unmarshal of the members into a map[Resource]Rate, in the order of the
\* text: a member whose name is already in the map replaces the entry
RECURSIVE DecodeMembers(_, _)
DecodeMembers(members, resources) ==
    IF Len(members) = 0 THEN [Resources |-> resources, err |-> NoError]
    ELSE LET name    == members[1][1]
             decoded == DecodeRate(members[1][2])
         IN  IF decoded.err # NoError
             THEN [Resources |-> resources, err |-> decoded.err]
             ELSE DecodeMembers(Tail(members),
                      [k \in DOMAIN resources \cup {name} |->
                          IF k = name THEN decoded.rate ELSE resources[k]])

\* json.Unmarshal(body, &limits)
Unmarshal(document) ==
    IF document.syntax # "object"
    THEN [Resources |-> <<>>, err |-> "invalid character"]
    ELSE DecodeMembers(document.resources, <<>>)

\* the loop of Fetch over limits.Resources, visiting the entries in `order`
\* (the order of a range over a Go map is not specified): the Limits after the
\* Store calls, the map writes and the callbacks, in order
RECURSIVE StoreEach(_, _, _)
StoreEach(l, resources, order) ==
    IF Len(order) = 0 THEN [limits |-> l, stored |-> <<>>, calls |-> <<>>]
    ELSE IF order[1] \notin DOMAIN resources
    THEN StoreEach(l, resources, Tail(order))
    ELSE LET s    == LimitsStore(l, order[1], resources[order[1]])
             rest == StoreEach(s.limits, resources, Tail(order))
         IN  [limits |-> rest.limits,
              stored |-> s.stored \o rest.stored,
              calls  |-> s.calls \o rest.calls]

\* the RoundTrippers Fetch is given: the Transport that owns the Limits, as
\* Transport.Poll does, or the base RoundTripper itself
Executors == {"Transport", "Base"}

\* transport.RoundTrip(req), as far as the Limits is concerned
Executed(l, executor, base) ==
    IF executor = "Transport"
    THEN TransportRoundTrip(l, base)
    ELSE [limits |-> l, stored |-> <<>>, calls |-> <<>>,
          resp |-> base.resp, err |-> base.err]

\* Fetch returns an error: r is what transport.RoundTrip returned and did
FetchFailed(r, message) ==
    [limits |-> r.limits, stored |-> r.stored, calls |-> r.calls,
     own |-> <<>>, err |-> message]

\* Fetch looking at the rate-limit headers of the response after its loop
FetchReturnedHeadersLast(r, s) ==
    LET p == LimitsParse(s.limits, r.resp.Header)
    IN  [limits |-> p.limits, stored |-> r.stored \o s.stored \o p.stored,
         calls |-> r.calls \o s.calls \o p.calls, own |-> s.stored, err |-> NoError]

\* Fetch returns nil after its loop s
FetchReturned(r, s) ==
    [limits |-> s.limits, stored |-> r.stored \o s.stored,
     calls |-> r.calls \o s.calls, own |-> s.stored, err |-> NoError]

\* Fetch with one rate variable for the whole loop: every entry stored points
\* to it, and it holds the rate of the entry visited last
FetchStoresSharedVariable(r, u, order) ==
    LET visited == SelectSeq(order, LAMBDA k : k \in DOMAIN u.Resources)
        shared  == [k \in DOMAIN u.Resources |-> u.Resources[visited[Len(visited)]]]
    IN  IF u.err # NoError THEN FetchFailed(r, "json.Unmarshal failed")
        ELSE FetchReturned(r, StoreEach(r.limits, shared, order))

\* Fetch starting from an empty map: what the body does not name is gone
FetchStoresIntoEmptyMap(r, u, order) ==
    IF u.err # NoError THEN FetchFailed(r, "json.Unmarshal failed")
    ELSE FetchReturned(r, StoreEach([r.limits EXCEPT !.m = <<>>], u.Resources, order))

\* Fetch, lines 136-144: u is what json.Unmarshal returned; the Store calls
FetchStores(r, u, order) ==
    IF u.err # NoError THEN FetchFailed(r, "json.Unmarshal failed")
    ELSE FetchReturned(r, StoreEach(r.limits, u.Resources, order))

\* Fetch without the check of the status code
FetchChecksWithoutStatus(r, order) ==
    IF r.err # NoError THEN FetchFailed(r, "RoundTrip failed")
    ELSE IF r.resp.Body.ReadErr # NoError THEN FetchFailed(r, "Body.Read failed")
    ELSE IF r.resp.Body.CloseErr # NoError THEN FetchFailed(r, "Body.Close failed")
    ELSE FetchStores(r, Unmarshal(r.resp.Body.Document), order)

\* Fetch, lines 115-138: r is what transport.RoundTrip returned and did
FetchChecks(r, order) ==
    IF r.err # NoError THEN FetchFailed(r, "RoundTrip failed")
    ELSE IF r.resp.Body.ReadErr # NoError THEN FetchFailed(r, "Body.Read failed")
    ELSE IF r.resp.Body.CloseErr # NoError THEN FetchFailed(r, "Body.Close failed")
    ELSE IF r.resp.StatusCode # 200 THEN FetchFailed(r, "StatusCode != 200")
    ELSE FetchStores(r, Unmarshal(r.resp.Body.Document), order)

\* Limits.Fetch, given what the base RoundTripper answers and the order in
\* which the loop visits the resources
LimitsFetch(l, executor, base, order) ==
    FetchChecks(Executed(l, executor, base), order)

\* Limits.Iter: the pairs sync.Map.Range visits, each key of the map once
Iter(l) == {<<resource, l.m[resource]>> : resource \in DOMAIN l.m}

(***************************************************************************)
(* One Transport used from a single goroutine: requests go through its     *)
(* RoundTrip, and Limits.Fetch is called on its Limits.  limits[1] is the  *)
(* Limits of the Transport.  A base RoundTripper returns a response, an    *)
(* error, or both.                                                         *)
(***************************************************************************)
\* the error of the base RoundTripper
BaseError == "base RoundTrip failed"

\* the rates the responses of requests report
ObservedRates == {Rate(12, 5, 7, 3), Rate(5, 5, 5, 0)}

\* the header sets of the responses of requests: none of the headers, the five
\* headers, and the five headers with one counter absent or "1x"
TransportHeaderSets ==
    {EmptyHeader}
    \cup { FormatHeaders(res, rate, 0, {}, <<>>) :
             res \in StoredResources, rate \in ObservedRates }
    \cup { FormatHeaders(res, Rate(12, 5, 7, 3), 0, {f}, junk) :
             res \in StoredResources \cup {""}, f \in Fields,
             junk \in {<<>>, <<"1", "x">>} }

\* what Base.RoundTrip returns for a request
RoundTripAnswers ==
    {[resp |-> NilResponse, err |-> e] : e \in {NoError, BaseError}}
    \cup { [resp |-> Response(h), err |-> e] :
             h \in TransportHeaderSets, e \in {NoError, BaseError} }

\* the header sets of the responses of the rate-limit endpoint
FetchHeaderSets ==
    { EmptyHeader,
      FormatHeaders(ResourceCore, Rate(12, 5, 7, 3), 0, {}, <<>>),
      FormatHeaders(ResourceSearch, Rate(5, 5, 5, 0), 0, {}, <<>>),
      FormatHeaders(ResourceCore, Rate(12, 5, 7, 3), 0, {"used"}, <<>>) }

\* {"resources": {"core": {"limit": 5, "used": 5, "remaining": 5, "reset": 0}}}
CoreDocument == Object(<<<<ResourceCore, RateObject(Rate(5, 5, 5, 0))>>>>)

\* the documents json.Unmarshal accepts: no entry, one entry, two entries, an
\* entry without "used" and "reset", and two members of the same name
Documents ==
    { Object(<<>>),
      CoreDocument,
      Object(<<<<ResourceCore, RateObject(Rate(12, 5, 7, 3))>>,
               <<ResourceSearch, RateObject(Rate(0, 0, 0, 10))>>>>),
      Object(<<<<ResourceCore, [limit |-> <<"1", "2">>, remaining |-> <<"7">>]>>>>),
      Object(<<<<ResourceSearch, RateObject(Rate(12, 5, 7, 3))>>,
               <<ResourceSearch, RateObject(Rate(5, 5, 5, 0))>>>>) }

\* the documents json.Unmarshal rejects: no JSON, and an entry with "limit": -1
\* after an entry that is well formed
BadDocuments ==
    { NotJSON,
      Object(<<<<ResourceCore, RateObject(Rate(5, 5, 5, 0))>>,
               <<ResourceSearch, [limit |-> <<"-", "1">>]>>>>) }

\* the header sets of the answers Fetch fails on
FailedHeaderSets ==
    {EmptyHeader, FormatHeaders(ResourceCore, Rate(12, 5, 7, 3), 0, {}, <<>>)}

\* what Base.RoundTrip returns for the request of Fetch
FetchAnswers ==
    { [resp |-> ResponseWithBody(200, h, Body(d)), err |-> NoError] :
        h \in FetchHeaderSets, d \in Documents }
    \cup {[resp |-> NilResponse, err |-> BaseError]}
    \cup { [resp |-> ResponseWithBody(200, h, Body(CoreDocument)), err |-> BaseError] :
             h \in FailedHeaderSets }
    \cup { [resp |-> ResponseWithBody(200, h, b), err |-> NoError] :
             h \in FailedHeaderSets,
             b \in {UnreadableBody, UnclosableBody}
                   \cup {Body(d) : d \in BadDocuments} }
    \cup { [resp |-> ResponseWithBody(403, h, Body(d)), err |-> NoError] :
             h \in FailedHeaderSets, d \in {NotJSON, CoreDocument} }

\* the orders in which a range over limits.Resources may visit the resources
RangeOrders ==
    {<<ResourceCore, ResourceSearch>>, <<ResourceSearch, ResourceCore>>}

\* t.RoundTrip(req)
RoundTrip ==
    /\ \E base \in RoundTripAnswers :
          LET r == TransportRoundTrip(limits[1], base)
          IN  /\ limits' = [limits EXCEPT ![1] = r.limits]
              /\ op' = [name |-> "RoundTrip", base |-> base,
                        resp |-> r.resp, err |-> r.err,
                        stored |-> r.stored, calls |-> r.calls]
    /\ UNCHANGED <<transports, strategy, now, rt, goroutines, history, ctx, poll>>

\* t.Limits.Fetch(ctx, transport, u)
Fetch ==
    /\ \E executor \in Executors, base \in FetchAnswers, order \in RangeOrders :
          LET r == LimitsFetch(limits[1], executor, base, order)
          IN  /\ limits' = [limits EXCEPT ![1] = r.limits]
              /\ op' = [name |-> "Fetch", executor |-> executor, base |-> base,
                        err |-> r.err, stored |-> r.stored, own |-> r.own,
                        calls |-> r.calls]
    /\ UNCHANGED <<transports, strategy, now, rt, goroutines, history, ctx, poll>>

\* NewTransport(base), with or without WithNotifyCallback
InitTransport ==
    /\ transports = <<>>
    /\ strategy = "StrategyMostRemaining"
    /\ \E withNotify \in BOOLEAN : limits = <<NewLimits(withNotify)>>
    /\ now = 1
    /\ rt = Idle
    /\ op = NoOp
    /\ goroutines = <<>>
    /\ history = NoHistory
    /\ ctx = Background
    /\ poll = NotPolling

NextTransport == RoundTrip \/ Fetch

SpecTransport == InitTransport /\ [][NextTransport]_vars

(***************************************************************************)
(* Properties of Transport.RoundTrip and of Limits.Fetch.                  *)
(***************************************************************************)
\* C16: when the base RoundTripper returns a response with a non-empty
\* resource header and four decimal counters, with or without an error,
\* Transport.RoundTrip has stored the four numbers in its own Limits when it
\* returns: Load of the resource yields them; and it returns the response and
\* the error of the base RoundTripper.
C16_RoundTripStoresBeforeReturn ==
    \A res \in StoredResources, rate \in ObservedRates :
        (/\ op.name = "RoundTrip"
         /\ op.base.resp # NilResponse
         /\ op.base.resp.Header = FormatHeaders(res, rate, 0, {}, <<>>))
        => /\ Load(limits[1], res) = rate
           /\ op.stored = <<<<res, rate>>>>
           /\ op.resp = op.base.resp
           /\ op.err = op.base.err

\* C16 witness: the base RoundTripper returned a response for search together
\* with an error, on a Transport whose Limits held another rate for search:
\* RoundTrip returned both, and Load returns the numbers of the response.
C16_Witness ==
    /\ op.name = "RoundTrip"
    /\ op.base.err = BaseError
    /\ op.base.resp # NilResponse
    /\ op.base.resp.Header = FormatHeaders(ResourceSearch, Rate(5, 5, 5, 0), 0, {}, <<>>)
    /\ op.err = BaseError
    /\ op.resp # NilResponse
    /\ Load(limits[1], ResourceSearch) = Rate(5, 5, 5, 0)
    /\ Load(limits[1], ResourceCore) = Rate(12, 5, 7, 3)

\* the header sets in which one counter is absent or "1x"
UnparsableHeaderSets ==
    { FormatHeaders(res, Rate(12, 5, 7, 3), 0, {f}, junk) :
        res \in StoredResources \cup {""}, f \in Fields,
        junk \in {<<>>, <<"1", "x">>} }

\* C17: when the base RoundTripper returns a response whose rate-limit headers
\* fail to parse (a resource, and a counter that is no decimal number),
\* Transport.RoundTrip returns a nil response and the parse error, also when
\* the base RoundTripper returned an error of its own, and leaves its Limits as
\* it was.
C17_ParseErrorReplacesAnswer ==
    [][(/\ op'.name = "RoundTrip"
        /\ op'.base.resp # NilResponse
        /\ op'.base.resp.Header.resource # ""
        /\ op'.base.resp.Header \in UnparsableHeaderSets)
       => /\ op'.resp = NilResponse
          /\ op'.err \notin {NoError, BaseError}
          /\ op'.err = ParseRate(op'.base.resp.Header).err
          /\ op'.stored = <<>>
          /\ op'.calls = <<>>
          /\ limits' = limits]_vars

\* C17 witness: the base RoundTripper returned an error and a response for core
\* without X-Ratelimit-Remaining, on a Transport whose Limits holds a rate for
\* core: RoundTrip returned nil and the parse error.
C17_Witness ==
    /\ op.name = "RoundTrip"
    /\ op.base.err = BaseError
    /\ op.base.resp # NilResponse
    /\ op.base.resp.Header
          = FormatHeaders(ResourceCore, Rate(12, 5, 7, 3), 0, {"remaining"}, <<>>)
    /\ op.resp = NilResponse
    /\ op.err = "failed to parse X-Ratelimit-Remaining header"
    /\ Load(limits[1], ResourceCore) = Rate(5, 5, 5, 0)

\* the resources map json.Unmarshal read from the body of the answer
BodyResources(o) == Unmarshal(o.base.resp.Body.Document).Resources

\* the pairs of the resources map of the body
BodyPairs(o) == {<<k, BodyResources(o)[k]>> : k \in DOMAIN BodyResources(o)}

\* the X-RateLimit-Resource header of the answer
HeaderResource(o) == o.base.resp.Header.resource

\* the response came through the Transport that owns the Limits, with
\* rate-limit headers for a resource the body does not name
HeadersAddResource(o) ==
    /\ o.executor = "Transport"
    /\ HeaderResource(o) \notin DOMAIN BodyResources(o) \cup {""}

\* C18 as claimed: after Limits.Fetch has succeeded against a 200 response
\* whose resources map has N entries, on a registry that held no other
\* resource, Iter yields exactly those N pairs.
C18_Claimed_IterYieldsBody ==
    [][(/\ op'.name = "Fetch" /\ op'.err = NoError
        /\ DOMAIN limits[1].m \subseteq DOMAIN BodyResources(op'))
       => Iter(limits'[1]) = BodyPairs(op')]_vars

\* C18 amended: after Limits.Fetch has succeeded against a 200 response whose
\* resources map has N entries, on a registry that held no other resource,
\* Iter yields exactly those N pairs, each resource once with the values of
\* the body (of the last member of its name), unless Fetch was given the
\* Transport that owns the registry and the rate-limit headers of the response
\* name a resource that is not in the body: Transport.RoundTrip has stored the
\* rate of the headers, and Iter yields that pair as well.
C18_IterYieldsBodyAndHeaders ==
    [][(/\ op'.name = "Fetch" /\ op'.err = NoError
        /\ DOMAIN limits[1].m \subseteq DOMAIN BodyResources(op'))
       => /\ op'.base.resp.StatusCode = 200
          /\ Cardinality(Iter(limits'[1])) = Cardinality(DOMAIN limits'[1].m)
          /\ IF HeadersAddResource(op')
             THEN Iter(limits'[1])
                     = BodyPairs(op')
                       \cup {<<HeaderResource(op'),
                               ParseRate(op'.base.resp.Header).rate>>}
             ELSE Iter(limits'[1]) = BodyPairs(op')]_vars

\* C18 witness: Fetch has succeeded through the owning Transport on a response
\* with headers for search and a body with core and search: the headers' rate
\* was stored first, then the two entries, and Iter yields the two entries
\* with the values of the body.
C18_Witness ==
    /\ op.name = "Fetch" /\ op.err = NoError
    /\ op.executor = "Transport"
    /\ Len(op.stored) = 3
    /\ op.stored[1] = <<ResourceSearch, Rate(5, 5, 5, 0)>>
    /\ Iter(limits[1]) = { <<ResourceCore, Rate(12, 5, 7, 3)>>,
                           <<ResourceSearch, Rate(0, 0, 0, 10)>> }

\* C19 as claimed: a Limits.Fetch that fails returns an error, makes no map
\* write and no callback, and leaves every rate stored before untouched.
C19_Claimed_FailedFetchStoresNothing ==
    [][(op'.name = "Fetch" /\ op'.err # NoError)
       => /\ op'.stored = <<>>
          /\ op'.calls = <<>>
          /\ limits' = limits]_vars

\* C19 amended: a Limits.Fetch that fails (error of the RoundTripper, body
\* read failure, status other than 200, body that json.Unmarshal rejects)
\* returns an error and stores no entry of the body, so a failed Fetch leaves
\* every rate untouched when its RoundTripper does not store into the registry.
\* Given the Transport that owns the registry, the only map write and callback
\* are those Transport.RoundTrip made for the rate-limit headers of the
\* response before Fetch looked at it: the rate of every other resource is
\* untouched.
C19_FailedFetchStoresNoEntry ==
    [][/\ (/\ op'.name = "Fetch"
           /\ \/ op'.base.err # NoError
              \/ op'.base.resp.Body.ReadErr # NoError
              \/ op'.base.resp.Body.CloseErr # NoError
              \/ op'.base.resp.StatusCode # 200
              \/ op'.base.resp.Body.Document \in BadDocuments)
          => op'.err # NoError
       /\ (op'.name = "Fetch" /\ op'.err # NoError)
          => /\ op'.own = <<>>
             /\ op'.executor = "Base"
                => /\ op'.stored = <<>>
                   /\ op'.calls = <<>>
                   /\ limits' = limits
             /\ op'.executor = "Transport"
                => /\ op'.stored = TransportRoundTrip(limits[1], op'.base).stored
                   /\ Len(op'.stored) <= 1
                   /\ \A i \in 1..Len(op'.stored) :
                         /\ op'.base.resp # NilResponse
                         /\ op'.stored[i]
                               = <<HeaderResource(op'),
                                   ParseRate(op'.base.resp.Header).rate>>
                   /\ op'.calls = IF limits[1].Notify THEN op'.stored ELSE <<>>
                   /\ \A resource \in ValidResources :
                         (op'.base.resp = NilResponse
                          \/ resource # HeaderResource(op'))
                         => Load(limits'[1], resource) = Load(limits[1], resource)]_vars

\* C19 witness: Fetch through the owning Transport has failed on a 403 response
\* with rate-limit headers for core: the only map write is that of the
\* headers, and the rate of search, stored before, is still there.
C19_Witness ==
    /\ op.name = "Fetch"
    /\ op.err = "StatusCode != 200"
    /\ op.executor = "Transport"
    /\ op.base.resp.StatusCode = 403
    /\ op.base.resp.Body.Document = CoreDocument
    /\ op.own = <<>>
    /\ op.stored = <<<<ResourceCore, Rate(12, 5, 7, 3)>>>>
    /\ Load(limits[1], ResourceCore) = Rate(12, 5, 7, 3)
    /\ Load(limits[1], ResourceSearch) = Rate(0, 0, 0, 10)

\* the resources that have an entry before or after the step, or are in the
\* body of the answer: Load returns nil for every other, before and after
Touched ==
    DOMAIN limits[1].m \cup DOMAIN limits'[1].m \cup DOMAIN BodyResources(op')

\* C20 as claimed: a Limits.Fetch that succeeds overwrites the rate of every
\* resource of the body with the values of the body and leaves the rate of
\* every resource that is not in the body as it was.
C20_Claimed_OnlyBodyOverwritten ==
    [][(op'.name = "Fetch" /\ op'.err = NoError)
       => LET body == BodyResources(op')
          IN  \A resource \in Touched :
                 IF resource \in DOMAIN body
                 THEN Load(limits'[1], resource) = body[resource]
                 ELSE Load(limits'[1], resource) = Load(limits[1], resource)]_vars

\* C20 amended: a Limits.Fetch that succeeds overwrites the rate of every
\* resource of the body with the values of the body and leaves the rate of
\* every resource that is not in the body as it was, but for the resource the
\* rate-limit headers of the response name when Fetch was given the Transport
\* that owns the registry: that resource has the rate of the headers.
C20_BodyAndHeadersOverwritten ==
    [][(op'.name = "Fetch" /\ op'.err = NoError)
       => LET body   == BodyResources(op')
              header == IF op'.executor = "Transport" THEN HeaderResource(op')
                        ELSE ""
          IN  \A resource \in Touched \cup ({header} \ {""}) :
                 IF resource \in DOMAIN body
                 THEN Load(limits'[1], resource) = body[resource]
                 ELSE IF resource = header
                 THEN Load(limits'[1], resource)
                         = ParseRate(op'.base.resp.Header).rate
                 ELSE Load(limits'[1], resource) = Load(limits[1], resource)]_vars

\* C20 witness: Fetch has succeeded on a body with core alone and a response
\* without rate-limit headers, on a registry that held rates for core and
\* search: core has the rate of the body, search the rate it had.
C20_Witness ==
    /\ op.name = "Fetch" /\ op.err = NoError
    /\ op.base.resp.Header = EmptyHeader
    /\ op.base.resp.Body.Document = CoreDocument
    /\ op.stored = <<<<ResourceCore, Rate(5, 5, 5, 0)>>>>
    /\ Load(limits[1], ResourceCore) = Rate(5, 5, 5, 0)
    /\ Load(limits[1], ResourceSearch) = Rate(12, 5, 7, 3)

(***************************************************************************)
(* Transport.Poll (src/unnamed/part_003) and BalancingTransport.Poll       *)
(* (src/balancing.go).  goroutines[p] is the goroutine that runs           *)
(* Transport.Poll: the Transport it polls, the context it was given, where *)
(* it is in the loop, and its time.Ticker.  The channel of a Ticker holds  *)
(* one tick; a tick that fires while one is waiting is dropped.  A Fetch   *)
(* is in flight from its call to its return.                               *)
(***************************************************************************)
\* the numbers of ticks the Ticker of one loop fires
Ticks == {0, 1, 2}

\* the candidate lists of the BalancingTransport that is polled
PolledLists == {<<>>, <<1>>, <<1, 2>>}

\* the goroutines that may run Transport.Poll
PollIds == {1} \cup UNION {DOMAIN l : l \in PolledLists}

\* ctx.Done() is closed: only the context of the caller is ever cancelled
Cancelled(c) == c = "ctx" /\ ctx.done

\* what Base.RoundTrip returns for the request of a polled Fetch: the entry of
\* core, or an error
PollAnswers ==
    { [resp |-> ResponseWithBody(200, EmptyHeader, Body(CoreDocument)), err |-> NoError],
      [resp |-> NilResponse, err |-> BaseError] }

\* Transport.Poll has been called on Transport t with context c
PollLoop(t, c) ==
    [pc |-> "entry", t |-> t, ctx |-> c, C |-> 0, fetches |-> 0,
     err |-> NoError, ticks |-> 0, dropped |-> 0]

\* Poll, lines 110-113: time.NewTicker on entry, and the call of Fetch
PollFetch(p) ==
    /\ p \in DOMAIN goroutines
    /\ goroutines[p].pc \in {"entry", "for"}
    /\ goroutines' = [goroutines EXCEPT ![p].pc = "Fetch", ![p].fetches = @ + 1]
    /\ UNCHANGED <<transports, strategy, limits, now, rt, op, history, ctx, poll>>

\* Poll returning when Fetch fails
PollFetchedEndsOnError(p) ==
    /\ p \in DOMAIN goroutines
    /\ goroutines[p].pc = "Fetch"
    /\ \E base \in PollAnswers, order \in RangeOrders :
          LET t == goroutines[p].t
              r == LimitsFetch(limits[t], "Transport", base, order)
          IN  /\ limits' = [limits EXCEPT ![t] = r.limits]
              /\ goroutines' =
                    [goroutines EXCEPT
                       ![p].pc = IF r.err # NoError THEN "returned" ELSE "select",
                       ![p].err = r.err]
    /\ UNCHANGED <<transports, strategy, now, rt, op, history, ctx, poll>>

\* Poll, lines 113-115: Fetch returns, and its error is logged
PollFetched(p) ==
    /\ p \in DOMAIN goroutines
    /\ goroutines[p].pc = "Fetch"
    /\ \E base \in PollAnswers, order \in RangeOrders :
          LET t == goroutines[p].t
              r == LimitsFetch(limits[t], "Transport", base, order)
          IN  /\ limits' = [limits EXCEPT ![t] = r.limits]
              /\ goroutines' = [goroutines EXCEPT ![p].pc = "select", ![p].err = r.err]
    /\ UNCHANGED <<transports, strategy, now, rt, op, history, ctx, poll>>

\* the Ticker of a loop fires: the tick waits in ticker.C, or it is dropped
TickerFires(p) ==
    /\ p \in DOMAIN goroutines
    /\ goroutines[p].pc \in {"Fetch", "select", "for"}
    /\ goroutines[p].ticks + 1 \in Ticks
    /\ goroutines' =
          [goroutines EXCEPT
             ![p].ticks = @ + 1,
             ![p].C = 1,
             ![p].dropped = IF goroutines[p].C = 1 THEN @ + 1 ELSE @]
    /\ UNCHANGED <<transports, strategy, limits, now, rt, op, history, ctx, poll>>

\* Poll, line 119: the select receives from ticker.C
PollTick(p) ==
    /\ p \in DOMAIN goroutines
    /\ goroutines[p].pc = "select"
    /\ goroutines[p].C = 1
    /\ goroutines' = [goroutines EXCEPT ![p].pc = "for", ![p].C = 0]
    /\ UNCHANGED <<transports, strategy, limits, now, rt, op, history, ctx, poll>>

\* Poll looking at the context only when a tick arrives
PollDoneOnlyOnTick(p) ==
    /\ p \in DOMAIN goroutines
    /\ goroutines[p].pc = "select"
    /\ goroutines[p].C = 1
    /\ Cancelled(goroutines[p].ctx)
    /\ goroutines' = [goroutines EXCEPT ![p].pc = "returned"]
    /\ UNCHANGED <<transports, strategy, limits, now, rt, op, history, ctx, poll>>

\* Poll, lines 117-118: the select receives from ctx.Done(), Poll returns and
\* the deferred ticker.Stop() runs
PollDone(p) ==
    /\ p \in DOMAIN goroutines
    /\ goroutines[p].pc = "select"
    /\ Cancelled(goroutines[p].ctx)
    /\ goroutines' = [goroutines EXCEPT ![p].pc = "returned"]
    /\ UNCHANGED <<transports, strategy, limits, now, rt, op, history, ctx, poll>>

\* the caller cancels the context
Cancel ==
    /\ ~ctx.done
    /\ ctx' = [done |-> TRUE]
    /\ UNCHANGED <<transports, strategy, limits, now, rt, op, goroutines, history, poll>>

\* BalancingTransport.Poll before the loop visits candidate i
PollAt(list, i) ==
    IF i > Len(list) THEN [pc |-> "Done"] ELSE [pc |-> "range", next |-> i]

\* BalancingTransport.Poll starting the loops on context.Background()
BalancingPollGoOnBackground ==
    /\ poll.pc = "range"
    /\ goroutines' = Append(goroutines, PollLoop(transports[poll.next], "Background"))
    /\ poll' = PollAt(transports, poll.next + 1)
    /\ UNCHANGED <<transports, strategy, limits, now, rt, op, history, ctx>>

\* BalancingTransport.Poll, lines 44-46: go transport.Poll(ctx, interval, u)
BalancingPollGo ==
    /\ poll.pc = "range"
    /\ goroutines' = Append(goroutines, PollLoop(transports[poll.next], "ctx"))
    /\ poll' = PollAt(transports, poll.next + 1)
    /\ UNCHANGED <<transports, strategy, limits, now, rt, op, history, ctx>>

\* BalancingTransport.Poll returning only once every loop it started has
\* returned
BalancingPollReturnJoins ==
    /\ poll.pc = "Done"
    /\ Cancelled("ctx")
    /\ \A p \in DOMAIN goroutines : goroutines[p].pc = "returned"
    /\ poll' = [pc |-> "returned"]
    /\ UNCHANGED <<transports, strategy, limits, now, rt, op, goroutines, history, ctx>>

\* BalancingTransport.Poll, line 47: <-ctx.Done(), and Poll returns
BalancingPollReturn ==
    /\ poll.pc = "Done"
    /\ Cancelled("ctx")
    /\ poll' = [pc |-> "returned"]
    /\ UNCHANGED <<transports, strategy, limits, now, rt, op, goroutines, history, ctx>>

\* bt.Poll(ctx, interval, u) has been called on a list of fresh Transports,
\* or go tr.Poll(ctx, interval, u) on one Transport
InitPoll ==
    /\ strategy = "StrategyMostRemaining"
    /\ now = 1
    /\ rt = Idle
    /\ op = NoOp
    /\ history = NoHistory
    /\ ctx = Background
    /\ \/ /\ transports \in PolledLists
          /\ limits = [t \in DOMAIN transports |-> NewLimits(FALSE)]
          /\ goroutines = <<>>
          /\ poll = PollAt(transports, 1)
       \/ /\ transports = <<>>
          /\ limits = <<NewLimits(FALSE)>>
          /\ goroutines = <<PollLoop(1, "ctx")>>
          /\ poll = NotPolling

NextPoll ==
    \/ BalancingPollGo
    \/ BalancingPollReturn
    \/ Cancel
    \/ \E p \in PollIds :
          \/ PollFetch(p)
          \/ PollFetched(p)
          \/ TickerFires(p)
          \/ PollTick(p)
          \/ PollDone(p)

SpecPoll == InitPoll /\ [][NextPoll]_vars

\* every goroutine keeps running, and a select that can proceed on several
\* cases again and again takes each of them (the choice is pseudo-random);
\* whether a Fetch returns is up to the base RoundTripper
FairPoll ==
    /\ SpecPoll
    /\ WF_vars(BalancingPollGo)
    /\ WF_vars(BalancingPollReturn)
    /\ \A p \in PollIds :
          /\ WF_vars(PollFetch(p))
          /\ SF_vars(PollTick(p))
          /\ SF_vars(PollDone(p))

(***************************************************************************)
(* Properties of Transport.Poll and of BalancingTransport.Poll.            *)
(***************************************************************************)
\* the ticks the loop of goroutine record g has received from ticker.C
Received(g) == g.ticks - g.dropped - g.C

\* goroutine p runs Transport.Poll and is at pc
At(p, pc) == IF p \in DOMAIN goroutines THEN goroutines[p].pc = pc ELSE FALSE

\* the last Fetch of goroutine p failed and a tick waits in ticker.C
TickWaitsAfterFailure(p) ==
    IF p \in DOMAIN goroutines
    THEN goroutines[p].C = 1 /\ goroutines[p].err # NoError
    ELSE FALSE

C22_Claimed_NoFetchAfterCancel ==
    [][\A p \in DOMAIN goroutines :
         (goroutines[p].pc = "select" /\ Cancelled(goroutines[p].ctx))
         => goroutines'[p].pc \in {"select", "returned"}]_vars

\* goroutine p runs Transport.Poll, or has run it
Polling(p) == p \in DOMAIN goroutines

\* C23: if every Fetch that a Transport.Poll calls returns, then from the
\* moment the context is cancelled that Poll eventually returns, whether or
\* not its Ticker ever fires.
C23_CancelledPollReturns ==
    \A p \in PollIds :
       ([]<>(~At(p, "Fetch")))
       => ((Polling(p) /\ ctx.done) ~> At(p, "returned"))

\* a Poll has returned after its one Fetch, and its Ticker never fired
C23_Witness ==
    \E p \in DOMAIN goroutines :
       /\ goroutines[p].pc = "returned"
       /\ goroutines[p].fetches = 1
       /\ goroutines[p].ticks = 0
       /\ ctx.done

\* the loops BalancingTransport.Poll has started are those of the first n
\* candidates, one each and in list order, all on the context of the caller
StartedLoops(n) ==
    /\ Len(goroutines) = n
    /\ \A i \in 1..n :
          goroutines[i].t = transports[i] /\ goroutines[i].ctx = "ctx"

\* C24: BalancingTransport.Poll starts one Transport.Poll per candidate and
\* no other, each on the context it was called with; it has returned only if
\* that context is cancelled, whatever the length of the list; and once the
\* context is cancelled it returns.
C24_BalancingPollStartsOneLoopEach ==
    /\ [](/\ poll.pc = "range" => StartedLoops(poll.next - 1)
          /\ poll.pc \in {"Done", "returned"} => StartedLoops(Len(transports))
          /\ poll.pc = "returned" => ctx.done)
    /\ (poll.pc # "none" /\ ctx.done) ~> (poll.pc = "returned")

\* BalancingTransport.Poll has returned from a list of two candidates, and
\* the loop of the second one has not returned yet
C24_Witness ==
    /\ poll.pc = "returned"
    /\ Len(transports) = 2
    /\ Len(goroutines) = 2
    /\ goroutines[2].pc = "Fetch"

(***************************************************************************)
(* Two calls of BalancingTransport.RoundTrip, made at the same time on the *)
(* same candidates, with Stores before and between them.  op is the        *)
(* registries the last call found, and what the call before it found and   *)
(* selected.                                                               *)
(***************************************************************************)
\* the requests: GET /user and GET /search/users
SelectionRequests ==
    {Request("GET", <<"user">>), Request("GET", <<"search", "users">>)}

\* the rates the candidates observe
SelectionRates == {Rate(0, 0, 2, 3), Rate(0, 0, 1, 0)}

\* the candidate lists
SelectionLists == {<<1>>, <<1, 2>>}

\* the calls of bt.RoundTrip made so far
Calls == IF op = NoOp THEN 0 ELSE IF op.before = NoOp THEN 1 ELSE 2

\* t.Limits.Store(nil, resource, &rate) on a candidate, before a call
SelectionStore ==
    /\ Calls < 2
    /\ \E t \in 1..Len(transports), resource \in StoredResources,
          rate \in SelectionRates :
          limits' = [limits EXCEPT ![t] = LimitsStore(limits[t], resource, rate).limits]
    /\ UNCHANGED <<transports, strategy, now, rt, op, goroutines, history, ctx, poll>>

\* the first call of bt.RoundTrip(req)
FirstRoundTrip ==
    /\ Calls = 0
    /\ \E req \in SelectionRequests : RoundTripOf(req)
    /\ op' = [name |-> "RoundTrip", registry |-> limits, before |-> NoOp]
    /\ UNCHANGED <<transports, strategy, now, goroutines, history, ctx, poll>>

\* the second call of bt.RoundTrip(req)
SecondRoundTrip ==
    /\ Calls = 1
    /\ \E req \in SelectionRequests : RoundTripOf(req)
    /\ op' = [name |-> "RoundTrip", registry |-> limits,
              before |-> [resource |-> rt.resource, best |-> rt.best,
                          registry |-> op.registry]]
    /\ UNCHANGED <<transports, strategy, now, goroutines, history, ctx, poll>>

\* NewBalancingTransport over fresh Transports, with either strategy, at
\* any time of the clock
InitSelection ==
    /\ transports \in SelectionLists
    /\ strategy \in Strategies
    /\ limits = [t \in 1..Len(transports) |-> NewLimits(FALSE)]
    /\ now \in Epochs
    /\ rt = Idle
    /\ op = NoOp
    /\ goroutines = <<>>
    /\ history = NoHistory
    /\ ctx = Background
    /\ poll = NotPolling

NextSelection == SelectionStore \/ FirstRoundTrip \/ SecondRoundTrip

SpecSelection == InitSelection /\ [][NextSelection]_vars

\* the rates of the candidates for a resource, in list order, in a registry
RatesFor(registry, resource) ==
    [i \in 1..Len(transports) |-> Load(registry[transports[i]], resource)]

\* C25: two calls of BalancingTransport.RoundTrip at the same time, for
\* requests of the same inferred resource, on registries in which every
\* candidate has the same rate for that resource, select the same strategy
\* winner, whatever the registries hold for the other resources.
C25_WinnerDependsOnInferredResource ==
    (Calls = 2 /\ rt.resource = op.before.resource
       /\ RatesFor(op.registry, rt.resource) = RatesFor(op.before.registry, rt.resource))
    => rt.best = op.before.best

\* two calls for /search/users selected the same candidate from two
\* registries that agree on search and differ on core, where the rates of
\* core as they are now would select another candidate
C25_Witness ==
    /\ Calls = 2
    /\ rt.resource = ResourceSearch
    /\ op.before.resource = ResourceSearch
    /\ RatesFor(op.registry, ResourceSearch) = RatesFor(op.before.registry, ResourceSearch)
    /\ RatesFor(op.registry, ResourceCore) # RatesFor(op.before.registry, ResourceCore)
    /\ rt.best # NilTransport
    /\ rt.best = op.before.best
    /\ FoldStrategy(ResourceCore, NilTransport, 1) \notin {NilTransport, rt.best}

\* C26: BalancingTransport.RoundTrip evaluates bt.strategy, which is
\* StrategyMostRemaining unless WithStrategy gave another one, once for every
\* candidate and in list order, with nil as the current best of the first
\* evaluation and the result of the evaluation before for every later one;
\* every result is the current best, the candidate or nil, and the last one
\* is the winner.
C26_StrategyFoldedInListOrder ==
    /\ \A opts \in BalancingOptions :
          NewBalancingTransport("StrategyMostRemaining", opts, 1)
             = IF opts = <<>> THEN "StrategyMostRemaining" ELSE opts[Len(opts)]
    /\ (Done /\ Len(transports) = 0) => rt.calls = <<>>
    /\ (Done /\ Len(transports) > 0)
       => /\ Len(rt.calls) = Len(transports)
          /\ rt.best = rt.calls[Len(rt.calls)].result
          /\ \A i \in 1..Len(rt.calls) :
                LET call == rt.calls[i]
                IN  /\ call.strategy = strategy
                    /\ call.resource = rt.resource
                    /\ call.candidate = transports[i]
                    /\ call.best = IF i = 1 THEN NilTransport ELSE rt.calls[i - 1].result
                    /\ call.result \in {call.best, call.candidate, NilTransport}

\* a call over three candidates with the strategy given by WithStrategy: the
\* first evaluation returned nil, the second was given nil and selected its
\* candidate, and the third was given that candidate and kept it
C26_Witness ==
    /\ Done
    /\ strategy = "StrategyResetTimeInPastAndMostRemaining"
    /\ Len(rt.calls) = 3
    /\ rt.calls[1].result = NilTransport
    /\ rt.calls[2].best = NilTransport
    /\ rt.calls[2].result = transports[2]
    /\ rt.calls[3].best = transports[2]
    /\ rt.calls[3].result = transports[2]
    /\ rt.best = transports[2]

(***************************************************************************)
(* InferResource applied to one request.  op is the request, and then the  *)
(* request with the resource InferResource returned for it.                *)
(***************************************************************************)
\* the segments of the paths: "" ends a path that ends with "/"
Segments ==
    {"api", "v3", "search", "code", "users", "octocat", "graphql", "repos",
     "dependency-graph", ""}

\* the paths: "", and "/" followed by up to four segments separated by "/"
Paths == UNION {[1..n -> Segments] : n \in 0..4}

\* the methods of the requests
Methods == {"GET", "POST"}

\* InferResource(req)
Infer ==
    /\ op.name = "Request"
    /\ op' = [name |-> "InferResource", req |-> op.req,
              resource |-> InferResource(op.req)]
    /\ UNCHANGED <<transports, strategy, limits, now, rt, goroutines, history, ctx, poll>>

\* a request of any method and path
InitInfer ==
    /\ transports = <<>>
    /\ strategy = "StrategyMostRemaining"
    /\ limits = <<>>
    /\ now = 1
    /\ rt = Idle
    /\ \E method \in Methods, path \in Paths :
          op = [name |-> "Request", req |-> Request(method, path)]
    /\ goroutines = <<>>
    /\ history = NoHistory
    /\ ctx = Background
    /\ poll = NotPolling

NextInfer == Infer

SpecInfer == InitInfer /\ [][NextInfer]_vars

\* the path without a leading "/api/v3"
Stripped(path) ==
    IF Len(path) >= 2 /\ SubSeq(path, 1, 2) = <<"api", "v3">>
    THEN SubSeq(path, 3, Len(path))
    ELSE path

\* the first segments of the paths that some rule of InferResource names
RuleHeads ==
    {"search", "graphql", "app-manifests", "repos", "actions", "scim",
     "enterprises", "organizations"}

\* C27: with a leading /api/v3 removed from the path, InferResource returns
\* code_search for /search/code, search for every other path that starts
\* with /search/, graphql for /graphql, and core for the paths no rule
\* names: the empty path, a path whose first segment no rule names (as
\* /users/octocat), /search without a slash after it, and a path that goes
\* on after /graphql.
C27_InferResourceClassifies ==
    op.name = "InferResource"
    => LET path == Stripped(op.req.Path)
       IN  /\ path = <<"search", "code">> => op.resource = ResourceCodeSearch
           /\ (Len(path) >= 2 /\ path[1] = "search" /\ path # <<"search", "code">>)
              => op.resource = ResourceSearch
           /\ path = <<"graphql">> => op.resource = ResourceGraphQL
           /\ (path = <<>> \/ path = <<"search">>) => op.resource = ResourceCore
           /\ (Len(path) >= 1 /\ path[1] \notin RuleHeads)
              => op.resource = ResourceCore
           /\ (Len(path) >= 2 /\ path[1] = "graphql") => op.resource = ResourceCore

\* POST /api/v3/search/code has been classified as code_search
C27_Witness ==
    /\ op.name = "InferResource"
    /\ op.req = Request("POST", <<"api", "v3", "search", "code">>)
    /\ op.resource = ResourceCodeSearch

(***************************************************************************)
(* One Limits with a Notify callback, shared by goroutines that call       *)
(* Store, Load and Iter concurrently.  Iter is sync.Map.Range: it visits   *)
(* no key twice, it visits every key that is in the map when it begins,    *)
(* and what it yields for a key is a value the key has held at some point  *)
(* of the call up to the visit; whether it visits a key that is stored     *)
(* during the call is not specified.  A goroutine inside Iter is           *)
(* [pc |-> "Range", start, during, yielded]: the keys in the map when the  *)
(* call began, the values each key has held since, and the pairs yielded.  *)
(***************************************************************************)
\* the goroutines that share the Limits
RangeGoroutines == {1, 2}

\* the rates they store
RangeRates == {Rate(12, 5, 7, 3), Rate(5, 5, 5, 0)}

\* the resources sync.Map.Range has visited
Visited(g) == {g.yielded[i][1] : i \in DOMAIN g.yielded}

\* Store for a resource and a rate of the model, line 33
RangeStoreWrite(p) ==
    \E resource \in StoredResources, rate \in RangeRates :
       StoreWriteOf(p, resource, rate)

\* limits.Load(resource)
RangeLoad(p) ==
    /\ goroutines[p] = Returned
    /\ \E resource \in StoredResources :
          op' = [name |-> "Load", resource |-> resource,
                 result |-> Load(limits[1], resource)]
    /\ UNCHANGED <<transports, strategy, limits, now, rt, goroutines, history, ctx, poll>>

\* Iter, lines 54-55: the iterator is called and l.m.Range begins
RangeBegin(p) ==
    /\ goroutines[p] = Returned
    /\ goroutines' =
          [goroutines EXCEPT ![p] =
              [pc |-> "Range",
               start |-> DOMAIN limits[1].m,
               during |-> [k \in StoredResources |->
                             IF k \in DOMAIN limits[1].m THEN {limits[1].m[k]} ELSE {}],
               yielded |-> <<>>]]
    /\ UNCHANGED <<transports, strategy, limits, now, rt, op, history, ctx, poll>>

\* Iter, lines 55-65: Range visits a key, and yield is called with its value
RangeYield(p) ==
    /\ goroutines[p].pc = "Range"
    /\ \E k \in StoredResources \ Visited(goroutines[p]) :
          \E v \in goroutines[p].during[k] :
             goroutines' = [goroutines EXCEPT ![p].yielded = Append(@, <<k, v>>)]
    /\ UNCHANGED <<transports, strategy, limits, now, rt, op, history, ctx, poll>>

\* Range returning before it has visited every key it began with
RangeEndsEarly(p) ==
    /\ goroutines[p].pc = "Range"
    /\ goroutines' = [goroutines EXCEPT ![p] = Returned]
    /\ UNCHANGED <<transports, strategy, limits, now, rt, op, history, ctx, poll>>

\* Iter, lines 55-66: Range returns, having visited what it began with
RangeEnd(p) ==
    /\ goroutines[p].pc = "Range"
    /\ goroutines[p].start \subseteq Visited(goroutines[p])
    /\ goroutines' = [goroutines EXCEPT ![p] = Returned]
    /\ UNCHANGED <<transports, strategy, limits, now, rt, op, history, ctx, poll>>

\* NewTransport(base, WithNotifyCallback(callback))
InitRange ==
    /\ transports = <<>>
    /\ strategy = "StrategyMostRemaining"
    /\ limits = <<NewLimits(TRUE)>>
    /\ now = 1
    /\ rt = Idle
    /\ op = NoOp
    /\ goroutines = [p \in RangeGoroutines |-> Returned]
    /\ history = NoHistory
    /\ ctx = Background
    /\ poll = NotPolling

NextRange ==
    \E p \in RangeGoroutines :
       \/ RangeStoreWrite(p)
       \/ StoreNotify(p)
       \/ RangeLoad(p)
       \/ RangeBegin(p)
       \/ RangeYield(p)
       \/ RangeEnd(p)

SpecRange == InitRange /\ [][NextRange]_vars

(***************************************************************************)
(* Properties of Limits under concurrent Store, Load and Iter.             *)
(***************************************************************************)
\* C28: while a goroutine is inside the Notify callback of its Store, every
\* other goroutine can go on: one that is outside a call can store any rate
\* for any resource (the same one or another), load and begin an Iter, one
\* that is inside its own callback can return from it, and one that is
\* inside an Iter can take its next step.
C28_NobodyWaitsForAStore ==
    \A p \in RangeGoroutines, q \in RangeGoroutines :
       (p # q /\ goroutines[p].pc = "notify")
       => /\ goroutines[q] = Returned
             => /\ \A resource \in StoredResources, rate \in RangeRates :
                      ENABLED StoreWriteOf(q, resource, rate)
                /\ ENABLED RangeLoad(q)
                /\ ENABLED RangeBegin(q)
          /\ goroutines[q].pc = "notify" => ENABLED StoreNotify(q)
          /\ goroutines[q].pc = "Range" => ENABLED (RangeYield(q) \/ RangeEnd(q))

\* goroutine 1 is still inside the callback of its Store, and goroutine 2
\* has since stored another rate for the same resource and returned from
\* its own callback
C28_Witness ==
    /\ goroutines[1].pc = "notify"
    /\ goroutines[2] = Returned
    /\ op.name = "Notify"
    /\ op.resource = goroutines[1].resource
    /\ op.rate # goroutines[1].rate
    /\ op.rate \in goroutines[1].since
    /\ Load(limits[1], op.resource) = op.rate

\* C29: while Stores go on, a pass of Limits.Iter yields no resource twice
\* and yields a resource only with a rate that a Store call was given for
\* that resource; and when the pass ends it has yielded every resource that
\* was in the map when it began.
C29_IterIsBestEffort ==
    /\ [](\A p \in RangeGoroutines :
            goroutines[p].pc = "Range"
            => LET yielded == goroutines[p].yielded
               IN  /\ \A i, j \in DOMAIN yielded :
                         i # j => yielded[i][1] # yielded[j][1]
                   /\ \A i \in DOMAIN yielded :
                         <<yielded[i][1], yielded[i][2]>> \in history.called)
    /\ [][\A p \in RangeGoroutines :
            (goroutines[p].pc = "Range" /\ goroutines'[p] = Returned)
            => goroutines[p].start \subseteq Visited(goroutines[p])]_vars

\* a pass that began when only core was stored has yielded core; search was
\* first stored during the pass, and the pass may end without it or yield it
C29_Witness ==
    /\ goroutines[1].pc = "Range"
    /\ goroutines[1].start = {ResourceCore}
    /\ Visited(goroutines[1]) = {ResourceCore}
    /\ Load(limits[1], ResourceSearch) # NilRate
    /\ ENABLED RangeEnd(1)
    /\ ENABLED RangeYield(1)

\* C30: when the base RoundTripper returns no response, or a response whose
\* X-Ratelimit-Resource header is absent (whatever its other rate-limit
\* headers hold), Transport.RoundTrip returns the response and the error of
\* the base RoundTripper as they are, stores nothing, calls no callback and
\* leaves its Limits as it was.
C30_RoundTripDelegates ==
    [][(/\ op'.name = "RoundTrip"
        /\ \/ op'.base.resp = NilResponse
           \/ op'.base.resp.Header.resource = "")
       => /\ op'.resp = op'.base.resp
          /\ op'.err = op'.base.err
          /\ op'.stored = <<>>
          /\ op'.calls = <<>>
          /\ limits' = limits]_vars

\* the base RoundTripper returned an error and a response with a malformed
\* X-Ratelimit-Limit and no X-Ratelimit-Resource, on a Transport that holds a
\* rate for core: RoundTrip returned that response and that error
C30_Witness ==
    /\ op.name = "RoundTrip"
    /\ op.base.resp # NilResponse
    /\ op.base.resp.Header.resource = ""
    /\ op.base.resp.Header.limit = <<"1", "x">>
    /\ op.base.err = BaseError
    /\ op.resp = op.base.resp
    /\ op.err = BaseError
    /\ Load(limits[1], ResourceCore) = Rate(12, 5, 7, 3)

(***************************************************************************)
(* Properties of the evaluations of StrategyResetTimeInPastAndMostRemaining *)
(* that a call of BalancingTransport.RoundTrip makes.                      *)
(***************************************************************************)
\* what the fold read of Transport t: <<remaining, reset>>, zero for nil
SeenOf(t) ==
    IF t = NilTransport THEN <<0, 0>>
    ELSE rt.seen[CHOOSE i \in Candidates : transports[i] = t]

\* the reset has elapsed, and the other reset is zero or later
ElapsedBefore(reset, otherReset) ==
    reset # 0 /\ reset < now /\ (otherReset = 0 \/ otherReset > reset)

\* the evaluations of the reset-aware strategy in which the two sides do not
\* both have remaining 0
CallsWithCapacity ==
    IF Done /\ ResetAware
    THEN {i \in DOMAIN rt.calls :
            SeenOf(rt.calls[i].best)[1] # 0 \/ SeenOf(rt.calls[i].candidate)[1] # 0}
    ELSE {}

\* C31: when the two sides do not both have remaining 0, the candidate wins
\* if its reset has elapsed and the reset of the best is zero or later;
\* otherwise the best wins if its reset has elapsed and the reset of the
\* candidate is zero or later; the remaining counts play no part.
C31_ElapsedResetWins ==
    \A i \in CallsWithCapacity :
       LET call == rt.calls[i]
           b    == SeenOf(call.best)
           c    == SeenOf(call.candidate)
       IN  IF ElapsedBefore(c[2], b[2])
           THEN call.result = call.candidate
           ELSE ElapsedBefore(b[2], c[2]) => call.result = call.best

\* an evaluation in which the candidate won with remaining 0 and an elapsed
\* reset against a best with remaining 2 and no reset, and a later one in
\* which that best was kept for its earlier elapsed reset against a
\* candidate with more remaining
C31_Witness ==
    /\ Done /\ ResetAware
    /\ Len(rt.calls) = 3
    /\ SeenOf(rt.calls[2].best) = <<2, 0>>
    /\ SeenOf(rt.calls[2].candidate)[1] = 0
    /\ rt.calls[2].result = rt.calls[2].candidate
    /\ SeenOf(rt.calls[3].candidate)[1] = 2
    /\ SeenOf(rt.calls[3].candidate)[2] # 0
    /\ rt.calls[3].result = rt.calls[3].best
    /\ rt.calls[3].best = rt.calls[2].candidate

\* the evaluations of the reset-aware strategy that no elapsed reset decides
UndecidedByElapsedReset(domain) ==
    {i \in domain :
        /\ ~ElapsedBefore(SeenOf(rt.calls[i].candidate)[2], SeenOf(rt.calls[i].best)[2])
        /\ ~ElapsedBefore(SeenOf(rt.calls[i].best)[2], SeenOf(rt.calls[i].candidate)[2])}

\* what C32 says of evaluation i: with both resets non-zero the side that
\* resets sooner wins exactly when it has remaining > 0; in every remaining
\* case the candidate wins only with strictly more remaining than the best
SoonerResetWithRemainingWins(i) ==
    LET call == rt.calls[i]
        b    == SeenOf(call.best)
        c    == SeenOf(call.candidate)
    IN  IF b[2] # 0 /\ c[2] # 0 /\ c[2] < b[2]
        THEN call.result = (IF c[1] > 0 THEN call.candidate ELSE call.best)
        ELSE IF b[2] # 0 /\ c[2] # 0 /\ b[2] < c[2]
        THEN call.result = (IF b[1] > 0 THEN call.best ELSE call.candidate)
        ELSE call.result = (IF c[1] > b[1] THEN call.candidate ELSE call.best)

\* C32 as stated: in every evaluation that no elapsed reset decides, the
\* sooner-resetting side wins iff it has remaining > 0, and otherwise the
\* candidate wins only with strictly greater remaining: ties keep the best.
C32_Claimed_TiesKeepIncumbent ==
    (Done /\ ResetAware) =>
        \A i \in UndecidedByElapsedReset(DOMAIN rt.calls) :
            SoonerResetWithRemainingWins(i)

\* C32: the same, for the evaluations in which the two sides do not both
\* have remaining 0 (the tie at 0 returns nil, not the best).
C32_SoonerResetWithRemainingWins ==
    \A i \in UndecidedByElapsedReset(CallsWithCapacity) :
        SoonerResetWithRemainingWins(i)

\* an evaluation whose candidate resets sooner in the future but has no
\* remaining, so the best is kept, after one whose candidate won by resetting
\* sooner with remaining 1 against a best with remaining 2
C32_Witness ==
    /\ Done /\ ResetAware
    /\ Len(rt.calls) = 3
    /\ {2, 3} \subseteq UndecidedByElapsedReset(CallsWithCapacity)
    /\ SeenOf(rt.calls[2].best)[1] = 2
    /\ SeenOf(rt.calls[2].candidate)[1] = 1
    /\ SeenOf(rt.calls[2].candidate)[2] # 0
    /\ SeenOf(rt.calls[2].candidate)[2] < SeenOf(rt.calls[2].best)[2]
    /\ rt.calls[2].result = rt.calls[2].candidate
    /\ SeenOf(rt.calls[3].candidate)[1] = 0
    /\ SeenOf(rt.calls[3].candidate)[2] # 0
    /\ SeenOf(rt.calls[3].candidate)[2] < SeenOf(rt.calls[3].best)[2]
    /\ rt.calls[3].result = rt.calls[3].best

(***************************************************************************)
(* BalancingTransport.RoundTrip over base RoundTrippers that answer with   *)
(* rate-limit headers, with none, or with an error: the Transport that     *)
(* executes the request stores what the response reports.                  *)
(***************************************************************************)
\* the headers of a response that reports the rate of a resource
ReportedHeader(resource) == Header(resource, <<"5">>, <<"4">>, <<"1">>, <<"3">>)

\* what the base RoundTripper of a balanced Transport answers
DelegatedAnswers ==
    {[resp |-> Response(EmptyHeader), err |-> NoError],
     [resp |-> Response(ReportedHeader(ResourceCore)), err |-> NoError],
     [resp |-> Response(ReportedHeader(ResourceSearch)), err |-> NoError],
     [resp |-> NilResponse, err |-> BaseError]}

\* BalancingTransport.RoundTrip
DelegatingRoundTrip ==
    /\ rt = Idle
    /\ \E req \in BalancedRequests : RoundTripWith(req, DelegatedAnswers)
    /\ UNCHANGED <<transports, strategy, now, op, goroutines, history, ctx, poll>>

InitDelegation == InitBalancing

NextDelegation == BalancedStore \/ Tick \/ DelegatingRoundTrip

SpecDelegation == InitDelegation /\ [][NextDelegation]_vars

\* this step is a RoundTrip that folded the strategy over the candidates
FoldedNow == rt.state = "idle" /\ rt'.state = "done" /\ rt'.executed # <<>>

\* C33: evaluating a strategy has no effect on any registry: after the fold
\* every registry is what it was before it, so that Load of every resource and
\* the set of resources Iter yields are the same, and a resource that was
\* absent (read as remaining 0, reset 0) is still absent.
C33_StrategyLeavesRegistries ==
    [][FoldedNow =>
        /\ rt'.folded = limits
        /\ \A i \in 1..Len(transports) :
              LET t == transports[i]
              IN  /\ DOMAIN rt'.folded[t].m = DOMAIN limits[t].m
                  /\ \A resource \in ValidResources :
                        Load(rt'.folded[t], resource) = Load(limits[t], resource)
                  /\ (Load(limits[t], rt'.resource) = NilRate)
                        => /\ rt'.seen[i] = <<0, 0>>
                           /\ Load(rt'.folded[t], rt'.resource) = NilRate
                           /\ (t # rt'.chosen
                                 => Load(limits'[t], rt'.resource) = NilRate)]_vars

\* a fold of the reset-aware strategy over three candidates, the second of
\* which had no entry for the resource and was read as <<0, 0>>: it has none
\* afterwards, and the two others hold what they held
C33_Witness ==
    /\ Done /\ ResetAware
    /\ Len(transports) = 3
    /\ rt.chosen = 3
    /\ rt.seen[2] = <<0, 0>>
    /\ rt.seen[1][1] > 0
    /\ DOMAIN rt.folded[2].m = {}
    /\ DOMAIN limits[2].m = {}
    /\ Load(rt.folded[1], rt.resource) = Load(limits[1], rt.resource)
    /\ Load(limits[1], rt.resource) # NilRate

\* C34: for a non-empty list and a built-in strategy, RoundTrip executes the
\* request on exactly one transport, a member of the list, and returns the
\* result of that transport; the registry of no other transport changes.
C34_ExactlyOneTransportExecutes ==
    /\ [](Done /\ Len(transports) > 0 /\ strategy \in Strategies
            => /\ Len(rt.executed) = 1
               /\ rt.executed[1] = rt.chosen
               /\ \E i \in Candidates : transports[i] = rt.chosen)
    /\ [][FoldedNow =>
            /\ \A t \in DOMAIN limits : t # rt'.chosen => limits'[t] = limits[t]
            /\ \E base \in DelegatedAnswers :
                  LET r == TransportRoundTrip(limits[rt'.chosen], base)
                  IN  /\ rt'.resp = r.resp
                      /\ rt'.err = r.err
                      /\ limits'[rt'.chosen] = r.limits]_vars

\* the second of three candidates executed the request, its response reported
\* the rate of "search", and only its registry holds that rate afterwards
C34_Witness ==
    /\ Done
    /\ Len(transports) = 3
    /\ rt.executed = <<2>>
    /\ rt.best = 2
    /\ rt.resp = Response(ReportedHeader(ResourceSearch))
    /\ rt.err = NoError
    /\ Load(rt.folded[2], ResourceSearch) = NilRate
    /\ Load(limits[2], ResourceSearch) = Rate(5, 4, 1, 3)
    /\ Load(limits[1], ResourceSearch) = NilRate
    /\ Load(limits[3], ResourceSearch) = NilRate

(***************************************************************************)
(* BalancingTransport.RoundTrip on a request of any method and path.       *)
(***************************************************************************)
\* BalancingTransport.RoundTrip
RoundTripAnyRequest ==
    /\ rt = Idle
    /\ \E method \in Methods, path \in Paths :
          RoundTripWith(Request(method, path), BalancedAnswers)
    /\ UNCHANGED <<transports, strategy, now, op, goroutines, history, ctx, poll>>

\* a BalancingTransport over one Transport, or over none
InitAnyRequest ==
    /\ \E n \in 0..1 : transports = [i \in 1..n |-> i]
    /\ strategy \in Strategies
    /\ limits = [t \in 1..Len(transports) |-> NewLimits(FALSE)]
    /\ now = 1
    /\ rt = Idle
    /\ op = NoOp
    /\ goroutines = <<>>
    /\ history = NoHistory
    /\ ctx = Background
    /\ poll = NotPolling

NextAnyRequest == RoundTripAnyRequest

SpecAnyRequest == InitAnyRequest /\ [][NextAnyRequest]_vars

\* C35: InferResource returns a non-empty member of the known resources for
\* every method and path, so that RoundTrip never returns its 'unknown
\* resource' error: on a non-empty list the request is executed.
C35_InferResourceIsTotal ==
    Done =>
        /\ InferResource(rt.req) # ""
        /\ InferResource(rt.req) \in ValidResources
        /\ rt.err # "unknown resource for request"
        /\ Len(transports) > 0
              => /\ rt.resource = InferResource(rt.req)
                 /\ rt.executed = <<rt.chosen>>

\* a POST to a path no rule matches, /users//octocat, was classified as core
\* and executed
C35_Witness ==
    /\ Done
    /\ rt.req = Request("POST", <<"users", "", "octocat">>)
    /\ rt.resource = ResourceCore
    /\ rt.executed = <<1>>
    /\ rt.err = NoError

(***************************************************************************)
(* BalancingTransport.Poll and the loops it leaves behind.                 *)
(***************************************************************************)
\* the loop p can complete the Fetch it is inside, storing the rate of core
\* into the registry of its Transport
FetchCanStore(p) ==
    ENABLED (/\ PollFetched(p)
             /\ Load(limits'[goroutines[p].t], ResourceCore) # NilRate)

\* C36: BalancingTransport.Poll returns on cancellation without waiting for
\* the loops it started: once the context is cancelled Poll can return
\* wherever the loops are, and a Fetch that a loop completes without error
\* after Poll has returned stores rates into the registry of the loop's
\* candidate.
C36_PollReturnsWithoutWaiting ==
    /\ []((poll.pc = "Done" /\ ctx.done) => ENABLED BalancingPollReturn)
    /\ [][\A p \in PollIds :
            (/\ poll.pc = "returned"
             /\ At(p, "Fetch")
             /\ goroutines'[p].pc = "select"
             /\ goroutines'[p].err = NoError)
            => /\ Load(limits'[goroutines[p].t], ResourceCore) # NilRate
               /\ \A t \in DOMAIN limits :
                     t # goroutines[p].t => limits'[t] = limits[t]]_vars

\* Poll has returned over two candidates, the loop of the second is inside
\* its first Fetch with an empty registry, and storing is what it can do next
C36_Witness ==
    /\ poll.pc = "returned"
    /\ Len(transports) = 2
    /\ At(2, "Fetch")
    /\ goroutines[2].fetches = 1
    /\ DOMAIN limits[2].m = {}
    /\ FetchCanStore(2)

(***************************************************************************)
(* The Fetch of Transport.Poll: t.Limits.Fetch(ctx, t, u), through the     *)
(* RoundTrip of the Transport that owns the Limits.                        *)
(***************************************************************************)
\* the operation was a Fetch as Poll issues it, and it succeeded
PollFetchSucceeded ==
    op.name = "Fetch" /\ op.executor = "Transport" /\ op.err = NoError

\* C37: a Fetch issued through the Transport's own RoundTrip stores the rate
\* of the response's headers before any entry of the body: after the Fetch
\* has succeeded, Load of every resource present in the body returns the
\* value of the body, not that of the headers.
C37_BodyOverridesHeaders ==
    PollFetchSucceeded =>
        /\ \A resource \in DOMAIN BodyResources(op) :
              Load(limits[1], resource) = BodyResources(op)[resource]
        /\ HeaderResource(op) # ""
              => /\ op.stored[1] = <<HeaderResource(op),
                                      ParseRate(op.base.resp.Header).rate>>
                 /\ op.stored = <<op.stored[1]>> \o op.own
        /\ HeaderResource(op) = "" => op.stored = op.own

\* the response had headers for core with remaining 7 and a body with core
\* at remaining 5: the rate of the headers was stored first, and Load returns
\* the rate of the body
C37_Witness ==
    /\ PollFetchSucceeded
    /\ HeaderResource(op) = ResourceCore
    /\ op.stored = << <<ResourceCore, Rate(12, 5, 7, 3)>>,
                      <<ResourceCore, Rate(5, 5, 5, 0)>> >>
    /\ Load(limits[1], ResourceCore) = Rate(5, 5, 5, 0)

(***************************************************************************)
(* The Rate of four atomic counters (src/rate.go) and the Limits that is a *)
(* struct of one Rate per known resource (src/limits.go).  A Limits value  *)
(* of this kind is a function from the known resources to their Rate.      *)
(***************************************************************************)
\* var limits Limits: every counter of every Rate is zero
AtomicLimits == [resource \in ValidResources |-> Rate(0, 0, 0, 0)]

\* (*Rate).Parse: the four headers in the order Limit, Used, Remaining, Reset,
\* each counter stored as soon as its header has parsed; the first header that
\* fails ends the call with its error.  The result is the Rate after the call.
AtomicRateParse(r, headers) ==
    LET l   == ParseUint(headers.limit)
        u   == ParseUint(headers.used)
        rem == ParseUint(headers.remaining)
        rst == ParseUint(headers.reset)
    IN  IF l.err # NoError
        THEN [rate |-> r, err |-> "failed to parse X-RateLimit-Limit header"]
        ELSE IF u.err # NoError
        THEN [rate |-> [r EXCEPT !.limit = l.val],
              err |-> "failed to parse X-RateLimit-Used header"]
        ELSE IF rem.err # NoError
        THEN [rate |-> [r EXCEPT !.limit = l.val, !.used = u.val],
              err |-> "failed to parse X-RateLimit-Remaining header"]
        ELSE IF rst.err # NoError
        THEN [rate |-> [r EXCEPT !.limit = l.val, !.used = u.val,
                                 !.remaining = rem.val],
              err |-> "failed to parse X-RateLimit-Reset header"]
        ELSE [rate |-> Rate(l.val, u.val, rem.val, rst.val), err |-> NoError]

\* (*Limits).Rate: whether the switch has a case for the resource
AtomicLimitsRate(l, resource) ==
    IF resource \in DOMAIN l THEN l[resource] ELSE NilRate

\* (*Limits).Parse of src/limits.go.  The result is the Limits after the call.
AtomicLimitsParse(l, headers) ==
    LET resource == ParseResource(headers)
    IN  IF resource = ""
        THEN [limits |-> l, err |-> NoError]
        ELSE IF AtomicLimitsRate(l, resource) = NilRate
        THEN [limits |-> l, err |-> "unknown resource type"]
        ELSE LET p == AtomicRateParse(l[resource], headers)
             IN  [limits |-> [l EXCEPT ![resource] = p.rate], err |-> p.err]

\* the rates the responses report
AtomicRates == {Rate(12, 5, 7, 3), Rate(5, 4, 1, 9)}

\* the header sets received: for core, for no resource and for a resource
\* that is not known; four decimal counters, or one counter absent or
\* "invalid", or all four "invalid" as in TestRate_Parse
AtomicHeaderSets ==
    { FormatHeaders(res, rate, 0, bad, junk) :
        res \in {ResourceCore, "", "bogus"}, rate \in AtomicRates,
        bad \in {{}} \cup {{f} : f \in Fields} \cup {Fields},
        junk \in {<<>>, <<"i", "n", "v", "a", "l", "i", "d">>} }

\* limits.Parse(headers)
AtomicParse ==
    /\ \E headers \in AtomicHeaderSets :
          LET r == AtomicLimitsParse(limits[1], headers)
          IN  /\ limits' = [limits EXCEPT ![1] = r.limits]
              /\ op' = [name |-> "Parse", headers |-> headers, err |-> r.err]
    /\ UNCHANGED <<transports, strategy, now, rt, goroutines, history, ctx, poll>>

InitAtomic ==
    /\ transports = <<>>
    /\ strategy = "StrategyMostRemaining"
    /\ limits = <<AtomicLimits>>
    /\ now = 1
    /\ rt = Idle
    /\ op = NoOp
    /\ goroutines = <<>>
    /\ history = NoHistory
    /\ ctx = Background
    /\ poll = NotPolling

NextAtomic == AtomicParse

SpecAtomic == InitAtomic /\ [][NextAtomic]_vars

\* some counter of the header set is no decimal number
SomeFieldMalformed(headers) ==
    \E f \in Fields : ParseUint(headers[f]).err # NoError

\* C38 as claimed: in the atomic-field variant, Parse of a header set for a
\* known resource in which some numeric field is malformed returns an error
\* and leaves the four counters of that resource at their previous values.
C38_Claimed_NoPartialStore ==
    [][(/\ op'.name = "Parse"
        /\ ParseResource(op'.headers) \in ValidResources
        /\ SomeFieldMalformed(op'.headers))
       => /\ op'.err # NoError
          /\ limits'[1][ParseResource(op'.headers)]
                = limits[1][ParseResource(op'.headers)]]_vars

(***************************************************************************)
(* The BalancingTransport that is a bare slice of Transports, with the     *)
(* most-remaining selection written inline (src/unnamed/part_007), next to *)
(* the BalancingTransport with a strategy, on the same registries.         *)
(***************************************************************************)
\* the loop of RoundTrip accepting a candidate whose remaining equals the
\* best so far
RECURSIVE SliceFoldTiesToLater(_, _, _, _)
SliceFoldTiesToLater(resource, i, bestTransport, bestRemaining) ==
    IF i > Len(transports) THEN bestTransport
    ELSE LET rate == Load(limits[transports[i]], resource)
         IN  IF rate = NilRate
             THEN SliceFoldTiesToLater(resource, i + 1, bestTransport, bestRemaining)
             ELSE IF rate.remaining >= bestRemaining
             THEN SliceFoldTiesToLater(resource, i + 1, transports[i], rate.remaining)
             ELSE SliceFoldTiesToLater(resource, i + 1, bestTransport, bestRemaining)

\* RoundTrip, lines 35-44: the loop over the slice from element i on, with
\* bestTransport and bestRemaining as they are before it
RECURSIVE SliceFold(_, _, _, _)
SliceFold(resource, i, bestTransport, bestRemaining) ==
    IF i > Len(transports) THEN bestTransport
    ELSE LET rate == Load(limits[transports[i]], resource)
         IN  IF rate = NilRate
             THEN SliceFold(resource, i + 1, bestTransport, bestRemaining)
             ELSE IF rate.remaining > bestRemaining
             THEN SliceFold(resource, i + 1, transports[i], rate.remaining)
             ELSE SliceFold(resource, i + 1, bestTransport, bestRemaining)

\* the slice variant returns before its loop
SliceRoundTripFails(req, message) ==
    /\ op' = [name |-> "SliceRoundTrip", req |-> req, best |-> NilTransport,
              choices |-> {}, executed |-> <<>>,
              resp |-> NilResponse, err |-> message]
    /\ UNCHANGED limits

\* the slice variant executes the request on chosen, one of choices
SliceRoundTripDelegates(req, best, choices, chosen, base) ==
    LET r == TransportRoundTrip(limits[chosen], base)
    IN  /\ limits' = [limits EXCEPT ![chosen] = r.limits]
        /\ op' = [name |-> "SliceRoundTrip", req |-> req, best |-> best,
                  choices |-> choices, executed |-> <<chosen>>,
                  resp |-> r.resp, err |-> r.err]

\* BalancingTransport.RoundTrip(req) of the slice variant
SliceRoundTripOf(req) ==
    LET resource == InferResource(req)
        best     == SliceFold(resource, 1, NilTransport, 0)
        choices  == IF best = NilTransport
                    THEN {transports[n + 1] : n \in Intn(Len(transports))}
                    ELSE {best}
    IN  IF Len(transports) = 0
        THEN SliceRoundTripFails(req, "no transports available")
        ELSE IF resource = ""
        THEN SliceRoundTripFails(req, "unknown resource for request")
        ELSE \E base \in BalancedAnswers, chosen \in choices :
                SliceRoundTripDelegates(req, best, choices, chosen, base)

\* the same request sent through the slice variant, over the registries the
\* BalancingTransport with a strategy has just selected on
SliceRoundTrip ==
    /\ Done
    /\ op = NoOp
    /\ SliceRoundTripOf(rt.req)
    /\ UNCHANGED <<transports, strategy, now, rt, goroutines, history, ctx, poll>>

\* NewBalancingTransport(transports): the strategy is StrategyMostRemaining
InitSlice ==
    /\ \E n \in 0..MaxTransports : transports = [i \in 1..n |-> i]
    /\ strategy = NewBalancingTransport("StrategyMostRemaining", <<>>, 1)
    /\ limits = [t \in 1..Len(transports) |-> NewLimits(FALSE)]
    /\ now = 1
    /\ rt = Idle
    /\ op = NoOp
    /\ goroutines = <<>>
    /\ history = NoHistory
    /\ ctx = Background
    /\ poll = NotPolling

NextSlice == BalancedStore \/ BalancingRoundTrip \/ SliceRoundTrip

SpecSlice == InitSlice /\ [][NextSlice]_vars

\* both variants have answered the request, on the same registries
BothAnswered ==
    /\ Done /\ op.name = "SliceRoundTrip"
    /\ Len(transports) > 0
    /\ rt.folded = limits

\* the transports the BalancingTransport with a strategy may have executed on
StrategyChoices == IF rt.best = NilTransport THEN FallbackChoices ELSE {rt.best}

\* C39: on the same registries the slice variant and the BalancingTransport
\* with StrategyMostRemaining make the same choice: the same single
\* candidate when some candidate has remaining > 0, and otherwise both fall
\* back to a random draw over the same candidates; on an empty list both fail.
C39_SliceVariantChoosesTheSame ==
    /\ (Done /\ op.name = "SliceRoundTrip" /\ Len(transports) = 0)
          => op.err = rt.err /\ op.executed = <<>> /\ rt.executed = <<>>
    /\ BothAnswered
          => /\ op.best = rt.best
             /\ op.choices = StrategyChoices
             /\ op.executed[1] \in op.choices
             /\ rt.chosen \in op.choices
             /\ (\E i \in Candidates : SeenRemaining(i) > 0)
                   => /\ op.executed = rt.executed
                      /\ op.best # NilTransport
             /\ (\A i \in Candidates : SeenRemaining(i) = 0)
                   => /\ op.best = NilTransport
                      /\ op.choices = {transports[i] : i \in Candidates}

\* three candidates with remaining 1, 2 and 2: the second is the choice of
\* both variants, and both executed the request on it
C39_Witness ==
    /\ BothAnswered
    /\ Len(transports) = 3
    /\ SeenRemaining(1) = 1 /\ SeenRemaining(2) = 2 /\ SeenRemaining(3) = 2
    /\ op.best = 2 /\ rt.best = 2
    /\ op.executed = <<2>> /\ rt.executed = <<2>>

====
